---- MODULE Spec2Model ----
(***************************************************************************)
(* A model of arbuscular's request router (Router.route and its helpers),  *)
(* of the schema validator (Validator.validate) and of the server callback *)
(* that drives them.                                                       *)
(*                                                                         *)
(* JavaScript strings that the code takes apart (URLs, paths, query        *)
(* strings, parameter values, property names) are sequences of one         *)
(* character strings.  JavaScript values are records tagged by `t`.        *)
(***************************************************************************)
EXTENDS Integers, Sequences, FiniteSets, TLC

VARIABLES
    router,     \* the Router object: paths, components, routeDefinition, hooks
    pending,    \* hook modules whose import() of the constructor has not resolved
    ctx,        \* the locals of the request being routed, and where it is suspended
    res,        \* the ServerResponse of that request
    ev,         \* what happened for that request, in order (hook, parser, handler, log)
    served,     \* requests answered so far
    vin,        \* Validator.validate under test: the value and the schema
    vout,       \* ... and its outcome
    waiting     \* a call of route() suspended at an await while another request is routed

vars == <<router, pending, ctx, res, ev, served, vin, vout, waiting>>

-----------------------------------------------------------------------------
(* Bounds *)

\* How many requests are routed one after the other.
MaxRequests == 2
\* How many properties an enumerated object schema declares at most.
MaxProps == 2
\* How many branches an enumerated oneOf has at most.
MaxBranches == 3
\* The longest array handed to the Validator
MaxElements == 2

-----------------------------------------------------------------------------
(* JavaScript values *)

undefined == [t |-> "undefined"]
null == [t |-> "null"]
Str(s) == [t |-> "string", v |-> s]
Num(n) == [t |-> "number", v |-> n]
Bool(b) == [t |-> "boolean", v |-> b]
\* An object is its own properties in insertion order: <<[k |-> name, v |-> value], ...>>
Obj(ps) == [t |-> "object", v |-> ps]
Arr(xs) == [t |-> "array", v |-> xs]
\* A Buffer (only its being an object matters)
Buf(s) == [t |-> "buffer", v |-> s]
P(k, v) == [k |-> k, v |-> v]

\* value == null, which undefined satisfies too
IsNullish(x) == x.t \in {"undefined", "null"}

typeof(x) ==
    CASE x.t = "undefined" -> "undefined"
      [] x.t = "string" -> "string"
      [] x.t = "number" -> "number"
      [] x.t = "boolean" -> "boolean"
      [] OTHER -> "object"

\* Array.isArray
IsArray(x) == x.t = "array"

\* value[name] of an object value: the last property of that name, or undefined
RECURSIVE GetFrom(_, _, _)
GetFrom(ps, name, i) ==
    IF i = 0 THEN undefined
    ELSE IF ps[i].k = name THEN ps[i].v
    ELSE GetFrom(ps, name, i - 1)

Get(x, name) ==
    IF x.t = "object" THEN GetFrom(x.v, name, Len(x.v)) ELSE undefined

\* object[name] = value: replaces the property in place, or appends it
Put(x, name, value) ==
    IF \E i \in 1..Len(x.v) : x.v[i].k = name
    THEN [x EXCEPT !.v = [i \in 1..Len(x.v) |->
                            IF x.v[i].k = name THEN P(name, value) ELSE x.v[i]]]
    ELSE [x EXCEPT !.v = Append(x.v, P(name, value))]

\* A field of a record that may lack it (a JavaScript property read)
Has(r, f) == f \in DOMAIN r
Field(r, f) == IF f \in DOMAIN r THEN r[f] ELSE undefined

-----------------------------------------------------------------------------
(* Strings as character sequences *)

key0 == <<"k", "e", "y", "0">>
key1 == <<"k", "e", "y", "1">>
key2 == <<"k", "e", "y", "2">>
key3 == <<"k", "e", "y", "3">>
param1 == <<"p", "a", "r", "a", "m", "1">>
userId == <<"u", "s", "e", "r", "I", "d">>
companyId == <<"c", "o", "m", "p", "a", "n", "y", "I", "d">>
value1 == <<"v", "a", "l", "u", "e", "1">>
value2 == <<"v", "a", "l", "u", "e", "2">>
param1Value == <<"p", "1", "V">>
dataKey == <<"d", "a", "t", "a">>
rawKey == <<"r", "a", "w">>

\* String.prototype.indexOf(c), counted from 1; 0 when absent
RECURSIVE IndexFrom(_, _, _)
IndexFrom(s, c, i) ==
    IF i > Len(s) THEN 0
    ELSE IF s[i] = c THEN i
    ELSE IndexFrom(s, c, i + 1)

IndexOf(s, c) == IndexFrom(s, c, 1)

\* String.prototype.lastIndexOf(c), counted from 1; 0 when absent
RECURSIVE LastIndexFrom(_, _, _)
LastIndexFrom(s, c, i) ==
    IF i = 0 THEN 0
    ELSE IF s[i] = c THEN i
    ELSE LastIndexFrom(s, c, i - 1)

LastIndexOf(s, c) == LastIndexFrom(s, c, Len(s))

\* String.prototype.split(c)
RECURSIVE Split(_, _)
Split(s, c) ==
    LET i == IndexOf(s, c)
    IN  IF i = 0 THEN <<s>>
        ELSE <<SubSeq(s, 1, i - 1)>> \o Split(SubSeq(s, i + 1, Len(s)), c)

-----------------------------------------------------------------------------
(* Validator.validate *)

(* A schema is a record holding the keywords it has: type (a string),        *)
(* typeList (`type` given as an array of type names), ref (`$ref`, a text in  *)
(* pieces), format, enum, properties (<<[k |-> name, v |-> schema], ...>> in    *)
(* declaration order), required, items, anyOf, allOf, oneOf.                 *)
(* Of the formats only `date` is modelled; no schema of the model carries    *)
(* date-time or uuid.                                                        *)

Digits == {"0", "1", "2", "3", "4", "5", "6", "7", "8", "9"}

\* /^[0-9]{4}-[0-9]{2}-[0-9]{2}$/.test(s)
MatchesDate(s) ==
    /\ Len(s) = 10
    /\ \A i \in 1..10 : IF i \in {5, 8} THEN s[i] = "-" ELSE s[i] \in Digits

\* x == null for a schema, a component table or a value that may be missing
Missing(x) == Has(x, "t") /\ x.t \in {"undefined", "null"}

\* Whether a table <<[k |-> name, v |-> entry], ...>> has an entry `name`
HasKey(table, name) == \E i \in 1..Len(table) : table[i].k = name

\* object[name] of a table
Lookup(table, name) ==
    IF \E i \in 1..Len(table) : table[i].k = name
    THEN table[CHOOSE i \in 1..Len(table) : table[i].k = name].v
    ELSE undefined

\* Array.prototype.every over the outcomes of its callback in order: it stops
\* at the first callback that throws or returns a falsy value.
JsEvery(rs) ==
    IF \A i \in 1..Len(rs) : rs[i] = "truthy" THEN "true"
    ELSE LET j == CHOOSE i \in 1..Len(rs) :
                    /\ rs[i] # "truthy"
                    /\ \A h \in 1..(i - 1) : rs[h] = "truthy"
         IN  IF rs[j] = "throws" THEN "throws" ELSE "false"

\* The number of callbacks of a forEach whose try block threw
\* A count that finds no error
ErrorsNone(rs) == 0

Errors(rs) == Cardinality({i \in 1..Len(rs) : rs[i] = "throws"})

\* The type name `spec.type == "<name>"` holds for: the string itself, or a
\* one-element array, which == converts to its only element.
TypeName(spec) ==
    IF Has(spec, "type") THEN spec.type
    ELSE IF Has(spec, "typeList") /\ Len(spec.typeList) = 1 THEN spec.typeList[1]
    ELSE ""

\* The text of a string given in pieces
RECURSIVE Join(_)
Join(s) == IF Len(s) = 0 THEN "" ELSE s[1] \o Join(Tail(s))

\* spec["$ref"].split("/"): the names between the slashes
References(ref) ==
    LET parts == Split(ref, "/")
    IN  [i \in 1..Len(parts) |-> Join(parts[i])]

\* The walk over spec["$ref"].split("/")
RECURSIVE ResolveFrom(_, _, _, _)
ResolveFrom(references, components, component, i) ==
    IF i > Len(references) THEN component
    ELSE LET reference == references[i]
             next ==
                IF reference = "#" \/ reference = "components" THEN component
                ELSE IF ~Has(components, "schemas") THEN component
                ELSE IF Missing(component) THEN Lookup(components.schemas, reference)
                ELSE Field(component, reference)
         IN  ResolveFrom(references, components, next, i + 1)

\* validate's outcome: "throws", or what it returns ("undefined", "true", "false")
RECURSIVE validate(_, _, _)
RECURSIVE validateSpec(_, _, _)

\* propertyCallback that forgets `required`: an absent property is skipped
propertyCallbackLenient(value, property, required, components) ==
    LET childValue == Get(value, property.k)
    IN  IF childValue = undefined THEN "undefined"
        ELSE IF validate(childValue, property.v, components) = "throws"
             THEN "throws"
             ELSE "undefined"

\* The callback of Object.keys(properties).every
propertyCallback(value, property, required, components) ==
    LET childValue == Get(value, property.k)
    IN  IF childValue = undefined
        THEN IF \E i \in 1..Len(required) : required[i] = property.k
             THEN "throws"
             ELSE "undefined"
        ELSE IF validate(childValue, property.v, components) = "throws"
             THEN "throws"
             ELSE "undefined"

\* The callback of value.every for an array
elementCallback(childValue, spec, components) ==
    IF ~Has(spec, "items") THEN "false"
    ELSE IF validate(childValue, spec.items, components) = "throws" THEN "throws"
    ELSE "undefined"

\* The try block of the forEach over anyOf, allOf, oneOf
branchOutcomes(value, specs, components) ==
    [i \in 1..Len(specs) |-> validate(value, specs[i], components)]

\* The try block of the forEach over the names of a type array
typeOutcomes(value, spec, components) ==
    [i \in 1..Len(spec.typeList) |->
        validate(value,
                 [f \in (DOMAIN spec \ {"typeList"}) \cup {"type"} |->
                    IF f = "type" THEN spec.typeList[i] ELSE spec[f]],
                 components)]

validateSpec(value, spec, components) ==
    LET type == TypeName(spec)
    IN  IF type = "string" THEN
            IF typeof(value) # "string" THEN "throws"
            ELSE IF Has(spec, "format") /\ spec.format = "date" /\ ~MatchesDate(value.v)
                 THEN "throws"
            ELSE IF Has(spec, "enum") /\ ~\E i \in 1..Len(spec.enum) : spec.enum[i] = value.v
                 THEN "throws"
            ELSE "undefined"
        ELSE IF type = "number" THEN
            IF typeof(value) # "number" THEN "throws" ELSE "undefined"
        ELSE IF type = "boolean" THEN
            IF typeof(value) # "boolean" THEN "throws" ELSE "undefined"
        ELSE IF type = "object" THEN
            IF typeof(value) # "object" \/ IsNullish(value) THEN "throws"
            ELSE IF Has(spec, "properties")
                 THEN LET required == IF Has(spec, "required") THEN spec.required ELSE <<>>
                      IN  JsEvery([i \in 1..Len(spec.properties) |->
                                propertyCallback(value, spec.properties[i], required, components)])
                 ELSE "undefined"
        ELSE IF type = "array" THEN
            IF ~IsArray(value) THEN "throws"
            ELSE JsEvery([i \in 1..Len(value.v) |->
                            elementCallback(value.v[i], spec, components)])
        ELSE IF type = "null" THEN
            IF ~IsNullish(value) THEN "throws" ELSE "undefined"
        ELSE IF Has(spec, "typeList") THEN
            IF Errors(typeOutcomes(value, spec, components)) = Len(spec.typeList)
            THEN "throws" ELSE "undefined"
        ELSE IF ~Has(spec, "type") THEN
            IF Has(spec, "anyOf") THEN
                IF Errors(branchOutcomes(value, spec.anyOf, components)) = Len(spec.anyOf)
                THEN "throws" ELSE "undefined"
            ELSE IF Has(spec, "allOf") THEN
                IF Errors(branchOutcomes(value, spec.allOf, components)) > 0
                THEN "throws" ELSE "undefined"
            ELSE IF Has(spec, "oneOf") THEN
                LET errors == Errors(branchOutcomes(value, spec.oneOf, components))
                IN  IF errors > 0 /\ errors # Len(spec.oneOf) - 1
                    THEN "throws" ELSE "undefined"
            ELSE "undefined"
        ELSE "undefined"

validate(value, spec, components) ==
    IF ~Has(spec, "type") /\ ~Has(spec, "typeList") /\ Has(spec, "ref") /\ ~Missing(components)
    THEN LET component == ResolveFrom(References(spec.ref), components, undefined, 1)
         IN  IF Missing(component) THEN "throws"
             ELSE validateSpec(value, component, components)
    ELSE validateSpec(value, spec, components)


-----------------------------------------------------------------------------
(* The values and schemas Validator.validate is applied to *)

PropNames == <<key0, key1, key2>>
PropSchemas == {[type |-> "string"], [type |-> "number"]}
PropValues == {Str(value1), Num(1)}

Range(s) == {s[i] : i \in 1..Len(s)}

\* The sequences of at most MaxProps distinct property names
NameSeqs ==
    {ns \in UNION {[1..n -> Range(PropNames)] : n \in 0..MaxProps} :
        \A i, j \in 1..Len(ns) : i # j => ns[i] # ns[j]}

\* PropNames restricted to the names in K, in the order of PropNames
NamesIn(K) == SelectSeq(PropNames, LAMBDA k : k \in K)

ObjectSchemas ==
    UNION {
        {[type |-> "object",
          properties |-> [i \in 1..Len(ns) |-> P(ns[i], f[i])],
          required |-> SelectSeq(ns, LAMBDA k : k \in R)] :
            f \in [1..Len(ns) -> PropSchemas], R \in SUBSET Range(ns)} :
        ns \in NameSeqs}

ObjectValues ==
    UNION {
        {LET ks == NamesIn(K)
         IN  Obj([i \in 1..Len(ks) |-> P(ks[i], f[ks[i]])]) : f \in [K -> PropValues]} :
        K \in SUBSET Range(PropNames)}

SchemasV == ObjectSchemas \cup PropSchemas
ValuesV == ObjectValues \cup PropValues \cup {null}

\* One call Validator.validate(value, spec, components)
InputV(value, spec, components) ==
    [value |-> value, spec |-> spec, components |-> components]

\* The schemas the branches of a oneOf are taken from
BranchSchemas == {[type |-> "string"], [type |-> "number"], [type |-> "null"]}

\* The schemas {oneOf: [...]} of at most MaxBranches branches, without `type`
OneOfSchemas ==
    {[oneOf |-> branches] :
        branches \in UNION {[1..n -> BranchSchemas] : n \in 0..MaxBranches}}

OneOfInputs ==
    {InputV(value, spec, undefined) : value \in PropValues \cup {null}, spec \in OneOfSchemas}

\* "#/components/schemas/<name>"
RefTo(name) == <<"#", "/", "components", "/", "schemas", "/", name>>

\* A component registry: A is a schema, B is only a reference to A
Registry ==
    [schemas |-> <<P("A", [type |-> "string"]), P("B", [ref |-> RefTo("A")])>>]

\* A component registry without schemas
RegistryNoSchemas == [securitySchemes |-> <<>>]

\* References to a schema, to a reference, and to a name the registry lacks
RefSchemas == {[ref |-> RefTo(name)] : name \in {"A", "B", "C"}}

RefInputs ==
    {InputV(value, spec, components) :
        value \in PropValues \cup {null}, spec \in RefSchemas,
        components \in {undefined, Registry, RegistryNoSchemas}}

\* Array schemas, with items and without
ArraySchemas ==
    {[type |-> "array", items |-> items] : items \in PropSchemas}
        \cup {[type |-> "array"]}

ArrayValues ==
    {Arr(xs) : xs \in UNION {[1..n -> PropValues] : n \in 0..MaxElements}}

ArrayInputs ==
    {InputV(value, spec, undefined) :
        value \in ArrayValues \cup {null}, spec \in ArraySchemas}

\* The schemas {type: [...]} of at most MaxBranches type names
TypeListSchemas ==
    {[typeList |-> types] :
        types \in UNION {[1..n -> {"string", "number", "null"}] : n \in 0..MaxBranches}}

\* The schemas {anyOf: [...]} and {allOf: [...]}, without `type`
AnyOfSchemas ==
    {[anyOf |-> branches] :
        branches \in UNION {[1..n -> BranchSchemas] : n \in 0..MaxBranches}}

AllOfSchemas ==
    {[allOf |-> branches] :
        branches \in UNION {[1..n -> BranchSchemas] : n \in 0..MaxBranches}}

CombinedInputs ==
    {InputV(value, spec, undefined) :
        value \in PropValues \cup {null},
        spec \in TypeListSchemas \cup AnyOfSchemas \cup AllOfSchemas}

InputsV ==
    {InputV(value, spec, undefined) : value \in ValuesV, spec \in SchemasV}
        \cup OneOfInputs
        \cup CombinedInputs
        \cup RefInputs
        \cup ArrayInputs

\* Whether an object schema declares property `name`, and the schema it gives it
Declares(spec, name) == \E i \in 1..Len(spec.properties) : spec.properties[i].k = name
Requires(spec, name) == \E i \in 1..Len(spec.required) : spec.required[i] = name


-----------------------------------------------------------------------------
(* The setting the Router is constructed with *)

\* Paths and URLs
testPath == <<"/", "t", "e", "s", "t">>
tokenPath == <<"/", "t", "o", "k", "e", "n">>
openPath == <<"/", "o", "p", "e", "n">>
usersIdPath == <<"/", "u", "s", "e", "r", "s", "/", "{", "i", "d", "}">>
users42Path == <<"/", "u", "s", "e", "r", "s", "/", "4", "2">>
nopePath == <<"/", "n", "o", "p", "e">>
strictPath == <<"/", "s", "t", "r", "i", "c", "t">>
deepPath == <<"/", "a", "/", "b", "/", "c">>
idName == <<"i", "d">>
usersMePath == <<"/", "u", "s", "e", "r", "s", "/", "m", "e">>
ordersPath == <<"/", "u", "s", "e", "r", "s", "/", "{", "i", "d", "}", "/", "o", "r", "d", "e", "r", "s", "/", "{", "o", "r", "d", "e", "r", "I", "d", "}">>
orders12Path == <<"/", "u", "s", "e", "r", "s", "/", "1", "/", "o", "r", "d", "e", "r", "s", "/", "2">>
itemsIdPath == <<"/", "i", "t", "e", "m", "s", "/", "{", "i", "d", "}">>
items7Path == <<"/", "i", "t", "e", "m", "s", "/", "7">>
users42QueryUrl == <<"/", "u", "s", "e", "r", "s", "/", "4", "2", "?", "a", "=", "b">>
usersAbcPath == <<"/", "u", "s", "e", "r", "s", "/", "a", "b", "c">>
searchBadCountUrl == <<"/", "s", "e", "a", "r", "c", "h", "?", "c", "o", "u", "n", "t", "=", "x">>
thingsIdPath == <<"/", "t", "h", "i", "n", "g", "s", "/", "{", "i", "d", "}">>
things7Path == <<"/", "t", "h", "i", "n", "g", "s", "/", "7">>
pingPath == <<"/", "p", "i", "n", "g">>
searchPath == <<"/", "s", "e", "a", "r", "c", "h">>
searchFullUrl == <<"/", "s", "e", "a", "r", "c", "h", "?", "q", "=", "4", "2", "&", "c", "o", "u", "n", "t", "=", "7">>
searchNoCountUrl == <<"/", "s", "e", "a", "r", "c", "h", "?", "q", "=", "4", "2">>
orderIdName == <<"o", "r", "d", "e", "r", "I", "d">>
qName == <<"q">>
countName == <<"c", "o", "u", "n", "t">>

\* Media types, as texts in pieces: a piece is a run of characters the code
\* never looks into (the code looks for ";" and for blanks only)
ApplicationJson == <<"application/json">>
TextPlain == <<"text/plain">>

\* request.method when the request has none
NoMethod == "(none)"

\* The module and function names of the setting
TestModule == "./test/router.js"
LogicModule == "./logic/users.js"

\* The response schema of the operations of /test (test/router.js)
TestResponseSchema ==
    [type |-> "object",
     properties |-> <<P(key1, [type |-> "string"]), P(key2, [type |-> "string"])>>]

\* The request body schema of POST /test (test/router.js): two string properties
TestRequestSchema ==
    [type |-> "object",
     properties |-> <<P(key1, [type |-> "string"]), P(key2, [type |-> "string"])>>]

\* The request body schema of POST /strict: two required string properties
StrictRequestSchema ==
    [type |-> "object",
     properties |-> <<P(key1, [type |-> "string"]), P(key2, [type |-> "string"])>>,
     required |-> <<key1, key2>>]

BearerSecurity == <<"BearerAuth">>

JsonResponses(schema) ==
    <<P("200", [content |-> <<P(ApplicationJson, [schema |-> schema])>>])>>

\* setting.interface: the OpenAPI document
InterfaceDefinition ==
    [paths |-> <<
        P(testPath,
          [get |-> [security |-> BearerSecurity,
                    parameters |-> <<[name |-> param1, in |-> "query",
                                      schema |-> [type |-> "string"]]>>,
                    responses |-> JsonResponses(TestResponseSchema)],
           post |-> [security |-> BearerSecurity,
                     requestBody |-> [content |->
                        <<P(ApplicationJson, [schema |-> TestRequestSchema])>>],
                     responses |-> JsonResponses(TestResponseSchema)]]),
        P(strictPath,
          [post |-> [requestBody |-> [content |->
                        <<P(ApplicationJson, [schema |-> StrictRequestSchema])>>],
                     responses |-> JsonResponses(TestResponseSchema)]]),
        P(openPath,
          [get |-> [responses |->
                      <<P("200", [content |->
                            <<P(ApplicationJson, [schema |-> TestResponseSchema]),
                              P(TextPlain, [schema |-> [type |-> "string"]])>>])>>]]),
        P(usersIdPath,
          [get |-> [security |-> BearerSecurity,
                    parameters |-> <<[name |-> idName, in |-> "path",
                                      schema |-> [type |-> "number"]]>>,
                    responses |-> JsonResponses(TestResponseSchema)]]),
        \* a literal path that the template /users/{id} matches too
        P(usersMePath,
          [get |-> [responses |-> JsonResponses(TestResponseSchema)]]),
        \* a template with a literal segment between its placeholders
        P(ordersPath,
          [get |-> [parameters |-> <<[name |-> idName, in |-> "path",
                                      schema |-> [type |-> "number"]],
                                     [name |-> orderIdName, in |-> "path",
                                      schema |-> [type |-> "number"]]>>,
                    responses |-> JsonResponses(TestResponseSchema)]]),
        \* a template whose parameter is declared for the path, not the operation
        P(itemsIdPath,
          [parameters |-> <<[name |-> idName, in |-> "path",
                             schema |-> [type |-> "string"]]>>,
           get |-> [responses |-> JsonResponses(TestResponseSchema)]]),
        \* a template with parameters for the path and for the operation
        P(thingsIdPath,
          [parameters |-> <<[name |-> idName, in |-> "path",
                             schema |-> [type |-> "string"]]>>,
           get |-> [parameters |-> <<[name |-> idName, in |-> "path",
                                      schema |-> [type |-> "number"]]>>,
                    responses |-> JsonResponses(TestResponseSchema)]]),
        \* an operation whose route is keyed Get
        P(pingPath,
          [get |-> [responses |-> JsonResponses(TestResponseSchema)]]),
        \* an operation with a string and a required number query parameter
        P(searchPath,
          [get |-> [parameters |-> <<[name |-> qName, in |-> "query",
                                      schema |-> [type |-> "string"]],
                                     [name |-> countName, in |-> "query",
                                      required |-> TRUE,
                                      schema |-> [type |-> "number"]]>>,
                    responses |-> JsonResponses(TestResponseSchema)]])>>,
     components |-> [securitySchemes |-> <<
        P("BearerAuth", [type |-> "oauth2",
                         flows |-> [clientCredentials |-> [tokenUrl |-> tokenPath]]])>>]]

\* setting.route: the route definition, its method keys as written
RouteDocument ==
    <<P(testPath, <<P("GET", [module |-> TestModule, function |-> "testGet"]),
                    P("POST", [module |-> TestModule, function |-> "testPost"])>>),
      P(strictPath, <<P("POST", [module |-> TestModule, function |-> "testPost"])>>),
      P(openPath, <<P("GET", [module |-> LogicModule, function |-> "handle"])>>),
      P(usersIdPath, <<P("GET", [module |-> LogicModule, function |-> "handle"])>>),
      P(usersMePath, <<P("GET", [module |-> LogicModule, function |-> "me"])>>),
      P(ordersPath, <<P("GET", [module |-> LogicModule, function |-> "orders"])>>),
      P(itemsIdPath, <<P("GET", [module |-> LogicModule, function |-> "item"])>>),
      P(thingsIdPath, <<P("GET", [module |-> LogicModule, function |-> "thing"])>>),
      P(pingPath, <<P("Get", [module |-> LogicModule, function |-> "ping"])>>),
      P(searchPath, <<P("get", [module |-> LogicModule, function |-> "search"])>>)>>

Setting ==
    [contextPath |-> <<>>,
     interface |-> InterfaceDefinition,
     route |-> RouteDocument,
     authentication |-> [module |-> TestModule, function |-> "authenticate"],
     authorization |-> [module |-> TestModule, function |-> "authorize"],
     accessControl |-> [allowOrigin |-> "*",
                        allowHeaders |-> "Content-Type, Authorization",
                        allowMethods |-> "GET, POST, PUT, DELETE"]]

\* String.prototype.toLowerCase on the method names of the model
ToLowerCase(method) ==
    CASE method = "GET" -> "get"
      [] method = "POST" -> "post"
      [] method = "DELETE" -> "delete"
      [] method = "OPTIONS" -> "options"
      [] method = "Get" -> "get"
      [] OTHER -> method

\* /^[A-Z]+$/.test(method)
IsUpperCase(method) == method \in {"GET", "POST", "DELETE", "OPTIONS"}


-----------------------------------------------------------------------------
(* Router.constructor *)

\* table[name] = entry: replaces the entry in place, or appends it
TableSet(table, name, entry) ==
    IF \E i \in 1..Len(table) : table[i].k = name
    THEN [i \in 1..Len(table) |-> IF table[i].k = name THEN P(name, entry) ELSE table[i]]
    ELSE Append(table, P(name, entry))

\* delete table[name]
TableDelete(table, name) == SelectSeq(table, LAMBDA e : e.k # name)

\* The loop over Object.keys(methods) of one route entry: an all-uppercase
\* method key moves to its lowercase form, any other key stays as written.
RECURSIVE NormalizeMethods(_, _, _)
NormalizeMethods(keys, methods, i) ==
    IF i > Len(keys) THEN methods
    ELSE LET method == keys[i]
         IN  IF IsUpperCase(method)
             THEN NormalizeMethods(keys,
                    TableDelete(TableSet(methods, ToLowerCase(method), Lookup(methods, method)),
                                method),
                    i + 1)
             ELSE NormalizeMethods(keys, methods, i + 1)

Keys(table) == [i \in 1..Len(table) |-> table[i].k]

NormalizeRoutes(routeDefinition) ==
    [i \in 1..Len(routeDefinition) |->
        P(routeDefinition[i].k,
          NormalizeMethods(Keys(routeDefinition[i].v), routeDefinition[i].v, 1))]

\* The security schemes that are oauth2 with a clientCredentials tokenUrl
AuthPaths(components) ==
    LET schemes == components.securitySchemes
        isAuth(entry) ==
            /\ entry.type = "oauth2"
            /\ Has(entry, "flows")
            /\ Has(entry.flows, "clientCredentials")
            /\ Has(entry.flows.clientCredentials, "tokenUrl")
        kept == SelectSeq(schemes, LAMBDA e : isAuth(e.v))
    IN  [i \in 1..Len(kept) |->
            [name |-> kept[i].k, url |-> kept[i].v.flows.clientCredentials.tokenUrl]]

\* setting.accessControl with its defaults
AccessControl(setting) ==
    LET given == IF Has(setting, "accessControl") THEN setting.accessControl ELSE [x \in {} |-> ""]
        or(f, default) == IF Has(given, f) THEN given[f] ELSE default
    IN  [allowOrigin |-> or("allowOrigin", "*"),
         allowHeaders |-> or("allowHeaders", "*"),
         allowMethods |-> or("allowMethods", "*"),
         httpsOnly |-> or("httpsOnly", FALSE)]

\* A function value, known by its name
Function(name) == [t |-> "function", v |-> name]

\* The Router right after its constructor returned: both hooks still unset
Constructor(setting) ==
    [contextPath |-> setting.contextPath,
     accessControl |-> AccessControl(setting),
     customHeaders |-> Field(setting, "customHeaders"),
     customErrorHeaders |-> Field(setting, "customErrorHeaders"),
     paths |-> setting.interface.paths,
     components |-> setting.interface.components,
     authPaths |-> AuthPaths(setting.interface.components),
     routeDefinition |-> NormalizeRoutes(setting.route),
     authenticateFunction |-> undefined,
     authorizeFunction |-> undefined]

\* The hook modules the constructor starts to import
HookImports(setting) ==
    {h \in {"authentication", "authorization"} :
        Has(setting, h) /\ Has(setting[h], "module") /\ Has(setting[h], "function")}

\* What each module of the application exports
Exports(module) ==
    IF module = TestModule THEN {"authenticate", "authorize", "testGet", "testPost"}
    ELSE IF module = LogicModule THEN {"handle", "me", "orders", "item", "search", "ping", "thing"}
    ELSE {}

\* module[name]
Export(module, name) == IF name \in Exports(module) THEN Function(name) ELSE undefined


-----------------------------------------------------------------------------
(* Texts, errors and JSON *)

\* A text the code never takes apart, as one piece
Text(s) == <<s>>

NotFoundMessage == Text("Not found.")
RequestFormatMessage == Text("Request format is not supported.")
InternalErrorMessage == Text("Internal server error.")
AdministratorMessage ==
    Text("An error has occurred on the server. Please contact the administrator.")
InvalidBodyMessage == Text("Request HTTP body format is invalid.")

\* ErrorCode of utility/errors.js
ErrorCode ==
    {"JwtParseError", "AuthenticationError", "AuthorizationError",
     "RequestError", "StateError", "NotFoundError"}

\* error.name of an Error whose name was set to null
NoName == "(none)"

\* An Error instance: ErrorResponse(code, message) is Error(code, message)
Error(name, message) == [t |-> "error", name |-> name, message |-> message]

TypeError == Error("TypeError", Text("TypeError"))

\* value instanceof Error
IsError(x) == x.t = "error"

\* The decimal digits of a natural number
RECURSIVE DigitsOf(_)
DigitsOf(n) ==
    LET d == <<"0", "1", "2", "3", "4", "5", "6", "7", "8", "9">>[(n % 10) + 1]
    IN  IF n < 10 THEN <<d>> ELSE DigitsOf(n \div 10) \o <<d>>

Quoted(s) == <<"\"">> \o s \o <<"\"">>

\* JSON.stringify, for the values of the model: the text, or undefined.
\* A property whose value is undefined is left out.
RECURSIVE Stringify(_)
RECURSIVE StringifyProperties(_, _, _)
StringifyProperties(ps, i, first) ==
    IF i > Len(ps) THEN <<>>
    ELSE IF ps[i].v.t = "undefined" THEN StringifyProperties(ps, i + 1, first)
    ELSE (IF first THEN <<>> ELSE <<",">>)
         \o Quoted(ps[i].k) \o <<":">> \o Stringify(ps[i].v)
         \o StringifyProperties(ps, i + 1, FALSE)

Stringify(x) ==
    CASE x.t = "string" -> Quoted(x.v)
      [] x.t = "number" ->
            IF x.v < 0 THEN <<"-">> \o DigitsOf(0 - x.v) ELSE DigitsOf(x.v)
      [] x.t = "boolean" -> IF x.v THEN Text("true") ELSE Text("false")
      [] x.t = "null" -> Text("null")
      [] x.t = "object" -> <<"{">> \o StringifyProperties(x.v, 1, TRUE) \o <<"}">>
      [] OTHER -> <<>>

JSONstringify(x) == IF x.t \in {"undefined", "function"} THEN undefined ELSE Str(Stringify(x))

-----------------------------------------------------------------------------
(* http.ServerResponse, as Node.js implements it *)

\* A response nothing was written to.  `threw` says that the last call threw.
NewResponse ==
    [headersSent |-> FALSE, statusCode |-> 0, statusMessage |-> <<>>, headers |-> <<>>,
     body |-> <<>>, ended |-> FALSE, writeHeads |-> 0, ends |-> 0, threw |-> FALSE]

\* response.writeHead(statusCode, [statusMessage,] headers): throws
\* ERR_HTTP_HEADERS_SENT once the header was written.
writeHead(r, statusCode, statusMessage, headers) ==
    IF r.threw THEN r
    ELSE IF r.headersSent THEN [r EXCEPT !.threw = TRUE]
    ELSE [r EXCEPT !.headersSent = TRUE, !.statusCode = statusCode,
                   !.statusMessage = statusMessage, !.headers = headers,
                   !.writeHeads = r.writeHeads + 1]

\* response.write(chunk): throws ERR_INVALID_ARG_TYPE unless chunk is a string
\* or a Buffer; writes the implicit header (status 200) when none was written.
write(r, chunk) ==
    IF r.threw THEN r
    ELSE IF chunk.t \notin {"string", "buffer"} THEN [r EXCEPT !.threw = TRUE]
    ELSE IF r.ended THEN r
    ELSE [r EXCEPT !.headersSent = TRUE,
                   !.statusCode = IF r.headersSent THEN r.statusCode ELSE 200,
                   !.body = Append(r.body, chunk.v)]

\* A response that is never finished
endNever(r) == r

\* response.end(): finishes the response, with the implicit header if needed
end(r) ==
    IF r.threw THEN r
    ELSE IF r.ended THEN [r EXCEPT !.ends = r.ends + 1]
    ELSE [r EXCEPT !.headersSent = TRUE,
                   !.statusCode = IF r.headersSent THEN r.statusCode ELSE 200,
                   !.ended = TRUE, !.ends = r.ends + 1]

-----------------------------------------------------------------------------
(* Router: headers and the send functions *)

\* The loop that copies the custom headers over the fixed ones
RECURSIVE WithCustom(_, _, _)
WithCustom(headers, custom, i) ==
    IF IsNullish(custom) \/ i > Len(custom.v) THEN headers
    ELSE WithCustom(TableSet(headers, custom.v[i].k, custom.v[i].v), custom, i + 1)

FixedHeaders(rt) ==
    LET fixed == <<P("Access-Control-Allow-Origin", rt.accessControl.allowOrigin),
                   P("X-Content-Type-Options", "nosniff"),
                   P("Cache-Control", "no-store")>>
    IN  IF rt.accessControl.httpsOnly
        THEN Append(fixed, P("Strict-Transport-Security",
                "Strict-Transport-Security: max-age=31536000; includeSubDomains"))
        ELSE fixed

\* get headers()
headers(rt) == WithCustom(FixedHeaders(rt), rt.customHeaders, 1)

\* get errorHeaders()
errorHeaders(rt) == WithCustom(FixedHeaders(rt), rt.customErrorHeaders, 1)

sendJson(rt, r, data) ==
    LET h == TableSet(headers(rt), "Content-Type", "application/json")
    IN  end(write(writeHead(r, 200, <<>>, h), JSONstringify(data)))

\* The text is handed to writeHead as the status message; no body is written
sendText(rt, r, text) ==
    LET h == TableSet(headers(rt), "Content-Type", "text/plain")
    IN  end(writeHead(r, 200, text, h))

\* A success response without the preflight headers
sendSuccessPlain(rt, r) == end(writeHead(r, 200, <<>>, headers(rt)))

sendSuccess(rt, r) ==
    LET h == TableSet(TableSet(headers(rt),
                    "Access-Control-Allow-Headers", rt.accessControl.allowHeaders),
                    "Access-Control-Allow-Methods", rt.accessControl.allowMethods)
    IN  end(writeHead(r, 200, <<>>, h))

\* ErrorStatus with the StateError case fallen through to the default
ErrorStatusNoState(error) ==
    IF error.name \in {"AuthenticationError"}
    THEN [statusCode |-> Num(401), message |-> Str(error.message)]
    ELSE IF error.name \in {"AuthorizationError"}
    THEN [statusCode |-> Num(403), message |-> Str(error.message)]
    ELSE IF error.name \in {"JwtParseError", "RequestError"}
    THEN [statusCode |-> Num(400), message |-> Str(error.message)]
    ELSE IF error.name \in {"NotFoundError"}
    THEN [statusCode |-> Num(404), message |-> Str(error.message)]
    ELSE [statusCode |-> Num(500), message |-> Str(AdministratorMessage)]

\* The status and message sendError derives from an Error
ErrorStatus(error) ==
    IF error.name # NoName
    THEN CASE error.name = "AuthenticationError" -> [statusCode |-> Num(401), message |-> Str(error.message)]
           [] error.name = "AuthorizationError" -> [statusCode |-> Num(403), message |-> Str(error.message)]
           [] error.name = "JwtParseError" -> [statusCode |-> Num(400), message |-> Str(error.message)]
           [] error.name = "RequestError" -> [statusCode |-> Num(400), message |-> Str(error.message)]
           [] error.name = "StateError" -> [statusCode |-> Num(403), message |-> Str(error.message)]
           [] error.name = "NotFoundError" -> [statusCode |-> Num(404), message |-> Str(error.message)]
           [] OTHER -> [statusCode |-> Num(500), message |-> Str(AdministratorMessage)]
    ELSE [statusCode |-> Num(500), message |-> Str(AdministratorMessage)]

\* sendError(response, statusCode, message): statusCode is a number (Num) or
\* what was thrown; message is a string or undefined.
sendError(rt, r, statusCode, message) ==
    LET h0 == errorHeaders(rt)
        h == IF typeof(statusCode) = "number"
             THEN TableSet(h0, "Content-Type", "text/plain") ELSE h0
        mapped == IF typeof(statusCode) = "object" /\ IsError(statusCode)
                  THEN ErrorStatus(statusCode)
                  ELSE [statusCode |-> statusCode, message |-> message]
        r1 == IF typeof(mapped.statusCode) = "number"
              THEN writeHead(r, mapped.statusCode.v, <<>>, h)
              ELSE r
        r2 == IF ~IsNullish(mapped.message) THEN write(r1, mapped.message) ELSE r1
    IN  end(r2)


-----------------------------------------------------------------------------
(* Library functions the router and the body parser call *)

\* Not a number
NaN == [t |-> "number", nan |-> TRUE]

DigitValue(c) == CHOOSE n \in 0..9 : DigitsOf(n) = <<c>>

RECURSIVE DecimalFrom(_, _, _)
DecimalFrom(s, i, acc) ==
    IF i > Len(s) THEN acc ELSE DecimalFrom(s, i + 1, acc * 10 + DigitValue(s[i]))

\* Number(s) for a string: its value when s is all digits, 0 when s is empty,
\* NaN for every other string of the model
Number(s) ==
    IF \A i \in 1..Len(s) : s[i] \in Digits THEN Num(DecimalFrom(s, 1, 0)) ELSE NaN

\* /^[0-9.-]+$/.test(s)
MatchesNumeric(s) == Len(s) > 0 /\ \A i \in 1..Len(s) : s[i] \in Digits \cup {".", "-"}

\* /^[0-9.]+$/.test(s)
MatchesDecimal(s) == Len(s) > 0 /\ \A i \in 1..Len(s) : s[i] \in Digits \cup {"."}

\* QueryString.parse: the pairs between "&", each split at its first "="; a
\* name given twice holds the array of its values.  (No text of the model is
\* percent-encoded.)
RECURSIVE QueryPairs(_, _, _)
QueryPairs(pairs, i, acc) ==
    IF i > Len(pairs) THEN acc
    ELSE IF Len(pairs[i]) = 0 THEN QueryPairs(pairs, i + 1, acc)
    ELSE LET eq == IndexOf(pairs[i], "=")
             name == IF eq = 0 THEN pairs[i] ELSE SubSeq(pairs[i], 1, eq - 1)
             value == IF eq = 0 THEN <<>> ELSE SubSeq(pairs[i], eq + 1, Len(pairs[i]))
             old == Get(acc, name)
             new == IF old = undefined THEN Str(value)
                    ELSE IF IsArray(old) THEN Arr(Append(old.v, Str(value)))
                    ELSE Arr(<<old, Str(value)>>)
         IN  QueryPairs(pairs, i + 1, Put(acc, name, new))

QueryStringParse(s) == QueryPairs(Split(s, "&"), 1, Obj(<<>>))

\* String.prototype.trim on a text in pieces
RECURSIVE Trim(_)
Trim(s) ==
    IF Len(s) = 0 THEN s
    ELSE IF s[1] = " " THEN Trim(Tail(s))
    ELSE IF s[Len(s)] = " " THEN Trim(SubSeq(s, 1, Len(s) - 1))
    ELSE s

\* String.prototype.toLowerCase on a text in pieces
LowerPiece(piece) ==
    CASE piece = "Application/JSON" -> "application/json"
      [] piece = "charset=UTF-8" -> "charset=utf-8"
      [] OTHER -> piece

LowerCase(s) == [i \in 1..Len(s) |-> LowerPiece(s[i])]

\* The objects a JSON text of the model can denote
JsonStrings == {Str(value1), Str(value2)}
JsonValues == JsonStrings \cup {Num(1)}

JsonNames == <<key1, key2, key3>>

JsonObjects ==
    UNION {
        {LET ks == SelectSeq(JsonNames, LAMBDA k : k \in K)
         IN  Obj([i \in 1..Len(ks) |-> P(ks[i], f[ks[i]])]) : f \in [K -> JsonValues]} :
        K \in SUBSET Range(JsonNames)}

\* JSON.parse: the value the text denotes; throws (SyntaxError) on any other text
JSONparse(text) ==
    IF \E x \in JsonObjects : Stringify(x) = text
    THEN [threw |-> FALSE, value |-> CHOOSE x \in JsonObjects : Stringify(x) = text]
    ELSE [threw |-> TRUE, value |-> Error("SyntaxError", Text("Unexpected end of JSON input"))]

\* Buffer.concat of the chunks, decoded
RECURSIVE Concat(_)
Concat(chunks) == IF Len(chunks) = 0 THEN <<>> ELSE Head(chunks) \o Concat(Tail(chunks))

\* new RegExp("^" + pattern + "$").test(s), for a pattern of characters that
\* stand for themselves and of ".+" pieces
RECURSIVE MatchesFrom(_, _, _, _)
MatchesFrom(pattern, i, s, j) ==
    IF i > Len(pattern) THEN j > Len(s)
    ELSE IF pattern[i] = ".+"
         THEN \E k \in j..Len(s) : MatchesFrom(pattern, i + 1, s, k + 1)
         ELSE j <= Len(s) /\ s[j] = pattern[i] /\ MatchesFrom(pattern, i + 1, s, j + 1)

RegExpTest(pattern, s) == MatchesFrom(pattern, 1, s, 1)


-----------------------------------------------------------------------------
(* utility/body-parser.js: parse(request, settings) *)

(* A request is [method, url, contentType, chunks]: method is NoMethod when  *)
(* the request has none, url and contentType are strings or undefined, and   *)
(* chunks are the buffers its "data" events deliver.                         *)

\* String.prototype.toUpperCase on the method names of the model
ToUpperCase(method) ==
    CASE method = "get" -> "GET"
      [] method = "post" -> "POST"
      [] OTHER -> method

\* The media type parse() dispatches on: trimmed, lowercased, cut at ";"
ParserContentType(request) ==
    IF IsNullish(request.contentType) THEN undefined
    ELSE LET contentType == LowerCase(Trim(request.contentType.v))
             delimiterIndex == IndexOf(contentType, ";")
         IN  IF delimiterIndex # 0
             THEN Str(SubSeq(contentType, 1, delimiterIndex - 1))
             ELSE Str(contentType)

\* The promise of parseJson: resolves null without data, {data, raw} on a
\* JSON text, rejects on any other text
parseJson(request) ==
    IF Len(request.chunks) = 0 THEN [rejected |-> FALSE, value |-> null]
    ELSE LET text == Concat(request.chunks)
             json == JSONparse(text)
         IN  IF json.threw THEN [rejected |-> TRUE, value |-> json.value]
             ELSE [rejected |-> FALSE,
                   value |-> Obj(<<P(dataKey, json.value), P(rawKey, Buf(text))>>)]

\* fields[name] = /^[0-9.]+$/.test(value) ? Number(value) : value, over all fields
NumericFields(fields) ==
    Obj([i \in 1..Len(fields.v) |->
            IF fields.v[i].v.t = "string" /\ MatchesDecimal(fields.v[i].v.v)
            THEN P(fields.v[i].k, Number(fields.v[i].v.v))
            ELSE fields.v[i]])

\* The promise of parseUrlEncoded
parseUrlEncoded(request) ==
    IF Len(request.chunks) = 0 THEN null
    ELSE LET text == Concat(request.chunks)
         IN  Obj(<<P(dataKey, QueryStringParse(text)), P(rawKey, Buf(text))>>)

\* new URL(request.url, ...).searchParams, as the object of its fields
SearchParams(url) ==
    LET index == IndexOf(url, "?")
    IN  IF index = 0 THEN Obj(<<>>)
        ELSE QueryStringParse(SubSeq(url, index + 1, Len(url)))

\* The promise parse() returns.  No request of the model is
\* multipart/form-data, so parseFormData is left out.
parse(request) ==
    LET contentType == ParserContentType(request)
        isJson == /\ ~IsNullish(contentType)
                  /\ contentType.v \in {ApplicationJson, <<"application/cloudevents+json">>}
    IN  IF isJson
        THEN LET body == parseJson(request)
             IN  IF body.rejected
                 THEN [rejected |-> TRUE, value |-> Error("Error", InvalidBodyMessage)]
                 ELSE body
        ELSE LET method == IF request.method # NoMethod
                           THEN ToUpperCase(request.method) ELSE "GET"
             IN  IF method = "GET"
                 THEN IF IsNullish(request.url)
                      THEN [rejected |-> FALSE, value |-> null]
                      ELSE [rejected |-> FALSE,
                            value |-> Obj(<<P(dataKey, NumericFields(SearchParams(request.url.v))),
                                            P(rawKey, null)>>)]
                 ELSE LET body == parseUrlEncoded(request)
                      IN  IF IsNullish(body) THEN [rejected |-> FALSE, value |-> null]
                          ELSE [rejected |-> FALSE,
                                value |-> Put(body, dataKey, NumericFields(Get(body, dataKey)))]

-----------------------------------------------------------------------------
(* Router.retrievePathParameters and the binding of parameters *)

\* pattern += "/{.+}", once per collected path parameter
RECURSIVE Placeholders(_)
Placeholders(n) ==
    IF n = 0 THEN <<>> ELSE <<"/", "{", ".+", "}">> \o Placeholders(n - 1)

\* The result is [path, pathParameters]: the key of `paths` found (or null),
\* and the array the calls pushed to
RECURSIVE retrievePathParameters(_, _, _)
retrievePathParameters(paths, requestPath, pathParameters) ==
    LET index == LastIndexOf(requestPath, "/")
    IN  IF index = 0 \/ index = 1 \/ index = Len(requestPath)
        THEN [path |-> null, pathParameters |-> pathParameters]
        ELSE LET pushed == Append(pathParameters,
                                  SubSeq(requestPath, index + 1, Len(requestPath)))
                 _requestPath == SubSeq(requestPath, 1, index - 1)
                 pattern == _requestPath \o Placeholders(Len(pushed))
                 matching == {i \in 1..Len(paths) : RegExpTest(pattern, paths[i].k)}
             IN  IF matching # {}
                 THEN [path |-> Str(paths[CHOOSE i \in matching :
                                            \A j \in matching : i <= j].k),
                       pathParameters |-> pushed]
                 ELSE retrievePathParameters(paths, _requestPath, pushed)

Reverse(s) == [i \in 1..Len(s) |-> s[Len(s) + 1 - i]]

\* The value a path parameter is bound as
PathValue(type, pathParameter) ==
    IF type \in {"number", "integer"} THEN Number(pathParameter)
    ELSE IF type = "boolean" THEN Bool(pathParameter \in {<<"t", "r", "u", "e">>, <<"1">>})
    ELSE Str(pathParameter)

\* pathParameters.forEach(...): binds by position the parameters declared in path
RECURSIVE BindPath(_, _, _, _)
BindPath(requestBody, parameters, pathParameters, index) ==
    IF index > Len(pathParameters) THEN requestBody
    ELSE IF index <= Len(parameters) /\ parameters[index].in = "path"
         THEN BindPath(Put(requestBody, parameters[index].name,
                           PathValue(parameters[index].schema.type, pathParameters[index])),
                       parameters, pathParameters, index + 1)
         ELSE BindPath(requestBody, parameters, pathParameters, index + 1)

\* BindQuery that binds every supplied parameter as the string it came as
RECURSIVE BindQueryRaw(_, _, _, _)
BindQueryRaw(requestBody, parameters, queryParameters, i) ==
    IF i > Len(parameters) THEN [result |-> TRUE, requestBody |-> requestBody]
    ELSE LET value == Get(queryParameters, parameters[i].name)
         IN  BindQueryRaw(IF value = undefined THEN requestBody
                          ELSE Put(requestBody, parameters[i].name, value),
                          parameters, queryParameters, i + 1)

\* BindQuery that checks the parameters and binds none
BindQueryNone(requestBody, parameters, queryParameters, i) ==
    [result |-> TRUE, requestBody |-> requestBody]

\* spec.parameters.every(...): [result, requestBody]; stops at the first
\* parameter that is rejected
RECURSIVE BindQuery(_, _, _, _)
BindQuery(requestBody, parameters, queryParameters, i) ==
    IF i > Len(parameters) THEN [result |-> TRUE, requestBody |-> requestBody]
    ELSE LET parameterSpec == parameters[i]
             key == parameterSpec.name
             type == parameterSpec.schema.type
             value == Get(queryParameters, key)
             isTrue == value.t = "string" /\ value.v \in {<<"t", "r", "u", "e">>, <<"1">>}
             isFalse == value.t = "string" /\ value.v \in {<<"f", "a", "l", "s", "e">>, <<"0">>}
         IN  IF parameterSpec.in # "query"
             THEN BindQuery(requestBody, parameters, queryParameters, i + 1)
             ELSE IF Has(parameterSpec, "required") /\ parameterSpec.required
                     /\ value = undefined
             THEN [result |-> FALSE, requestBody |-> requestBody]
             ELSE IF value = undefined
             THEN BindQuery(requestBody, parameters, queryParameters, i + 1)
             ELSE IF type = "number"
             THEN IF value.t # "string" \/ ~MatchesNumeric(value.v)
                  THEN [result |-> FALSE, requestBody |-> requestBody]
                  ELSE BindQuery(Put(requestBody, key, Number(value.v)),
                                 parameters, queryParameters, i + 1)
             ELSE IF type = "boolean"
             THEN IF ~isTrue /\ ~isFalse
                  THEN [result |-> FALSE, requestBody |-> requestBody]
                  ELSE BindQuery(Put(requestBody, key, Bool(isTrue)),
                                 parameters, queryParameters, i + 1)
             ELSE BindQuery(Put(requestBody, key, value), parameters, queryParameters, i + 1)


-----------------------------------------------------------------------------
(* Router.route, cut at its awaits *)

(* A run is [rt, ctx, res, ev]: the router, the locals of route() with the   *)
(* place `pc` where it is suspended or how it ended, the response, and the   *)
(* calls and log lines so far.  pc is "authenticate", "authorize", "parse",  *)
(* "import" or "handler" while route() awaits, "done" once it returned,      *)
(* "rejected" once it threw.                                                 *)

Locals(request) ==
    [pc |-> "idle", request |-> request, requestPath |-> <<>>,
     queryParameters |-> undefined, requestContentType |-> undefined,
     spec |-> undefined, pathWithPathParameters |-> undefined, pathParameters |-> <<>>,
     session |-> undefined, target |-> undefined, requestBody |-> undefined,
     responseBody |-> undefined, error |-> undefined]

NoRequest == [method |-> NoMethod, url |-> undefined, contentType |-> undefined, chunks |-> <<>>]

\* What a ServerResponse call throws
ResponseError == Error("Error", Text("ERR_HTTP"))

\* route() threw: its promise rejects
Rejected(run, error) == [run EXCEPT !.ctx.pc = "rejected", !.ctx.error = error]

\* A send function was called and route() returns, unless the call threw
Sent(run, r) ==
    IF r.threw
    THEN Rejected([run EXCEPT !.res = [r EXCEPT !.threw = FALSE]], ResponseError)
    ELSE [run EXCEPT !.res = r, !.ctx.pc = "done"]

Called(run, event) == [run EXCEPT !.ev = Append(@, event)]

\* How an awaited call of a hook or of a handler ended
Returned(run, by, value) == Called(run, [e |-> "returned", by |-> by, value |-> value])
Threw(run, by, error) == Called(run, [e |-> "threw", by |-> by, error |-> error])

\* writeLog at level info
Logged(run, line) == Called(run, [e |-> "log", line |-> line])

\* NotFound that answers without a body
NotFoundSilent(run) == Sent(run, sendError(run.rt, run.res, Num(404), undefined))

NotFound(run) == Sent(run, sendError(run.rt, run.res, Num(404), Str(NotFoundMessage)))

NotSupported(run) ==
    Sent(run, sendError(run.rt, run.res, Num(400), Str(RequestFormatMessage)))

InternalError(run) ==
    Sent(run, sendError(run.rt, run.res, Num(500), Str(InternalErrorMessage)))

\* A catch block that reads error.message and then calls sendError(response, error)
Caught(run, error) ==
    IF IsNullish(error) THEN Rejected(run, TypeError)
    ELSE Sent(run, sendError(run.rt, run.res, error, undefined))

\* requestContentType of route(): cut at ";" and trimmed
RouterContentType(request) ==
    IF IsNullish(request.contentType) THEN undefined
    ELSE LET index == IndexOf(request.contentType.v, ";")
         IN  IF index # 0 THEN Str(Trim(SubSeq(request.contentType.v, 1, index - 1)))
             ELSE request.contentType

\* "invoke module" up to the await of import()
RouteInvoke(run) ==
    IF ~Has(run.ctx.target, "module") THEN NotFound(run)
    ELSE [run EXCEPT !.ctx.pc = "import"]

\* "validate request", the branch without a request body: binds the parameters
RouteParameters(run) ==
    LET c == run.ctx
    IN  IF ~Has(c.spec, "parameters") THEN RouteInvoke(run)
        ELSE IF ~IsNullish(c.queryParameters)
        THEN LET bound == BindQuery(Obj(<<>>), c.spec.parameters, c.queryParameters, 1)
             IN  IF ~bound.result
                 THEN NotSupported([run EXCEPT !.ctx.requestBody = bound.requestBody])
                 ELSE RouteInvoke([run EXCEPT !.ctx.requestBody = bound.requestBody])
        ELSE IF Len(c.pathParameters) > 0
        THEN RouteInvoke([run EXCEPT !.ctx.requestBody =
                            BindPath(Obj(<<>>), c.spec.parameters, c.pathParameters, 1)])
        ELSE RouteInvoke(run)

\* From the request log line to the await of parse(), of import(), or the end
RouteTarget(run) ==
    LET c == run.ctx
        logged == Logged(run, "request")
        key == IF ~IsNullish(c.pathWithPathParameters)
               THEN c.pathWithPathParameters.v ELSE c.requestPath
        target == IF ~HasKey(run.rt.routeDefinition, key) THEN undefined
                  ELSE Lookup(Lookup(run.rt.routeDefinition, key),
                              ToLowerCase(c.request.method))
        found == [logged EXCEPT !.ctx.target = target]
    IN  IF Missing(target) THEN NotFound(Logged(logged, "nomodule"))
        ELSE IF Has(c.spec, "requestBody") /\ Has(c.spec.requestBody, "content")
        THEN [Called(found, [e |-> "parse", request |-> c.request])
                EXCEPT !.ctx.pc = "parse"]
        ELSE RouteParameters(found)

\* A table that holds no path
PathItemNone(paths, requestPath) == undefined

\* this.paths[requestPath]
PathItem(paths, requestPath) == Lookup(paths, requestPath)

\* "retrieve spec", "retrieve method" and "authorization" up to the await of
\* the authorize hook
RouteSpec(run) ==
    LET c == run.ctx
        direct == PathItem(run.rt.paths, c.requestPath)
        retrieved == IF Missing(direct)
                     THEN retrievePathParameters(run.rt.paths, c.requestPath, <<>>)
                     ELSE [path |-> undefined, pathParameters |-> <<>>]
        resolved == /\ Missing(direct)
                    /\ ~IsNullish(retrieved.path)
                    /\ Len(retrieved.pathParameters) > 0
        pathKey == IF resolved THEN retrieved.path.v ELSE c.requestPath
        pathSpec == IF resolved THEN Lookup(run.rt.paths, pathKey) ELSE direct
        pathParameters == IF resolved THEN Reverse(retrieved.pathParameters)
                          ELSE retrieved.pathParameters
        method == ToLowerCase(c.request.method)
        methodSpec == Field(pathSpec, method)
        inherits == Has(pathSpec, "parameters") /\ Len(pathSpec.parameters) > 0
        \* methodSpec.parameters = spec.parameters
        spec == IF inherits
                THEN [f \in DOMAIN methodSpec \cup {"parameters"} |->
                        IF f = "parameters" THEN pathSpec.parameters ELSE methodSpec[f]]
                ELSE methodSpec
        \* ... which writes to the operation held by this.paths
        rt == IF inherits
              THEN [run.rt EXCEPT !.paths =
                        TableSet(@, pathKey, [f \in DOMAIN pathSpec |->
                                    IF f = method THEN spec ELSE pathSpec[f]])]
              ELSE run.rt
        looked == [run EXCEPT !.ctx.pathWithPathParameters = retrieved.path,
                              !.ctx.pathParameters = pathParameters]
        chosen == [looked EXCEPT !.rt = rt, !.ctx.spec = spec]
    IN  IF Missing(pathSpec) THEN NotFound(Logged(looked, "norest"))
        ELSE IF Missing(methodSpec) THEN NotFound(Logged(looked, "norest"))
        ELSE IF Has(spec, "security") /\ ~IsNullish(rt.authorizeFunction)
        THEN [Called(chosen, [e |-> "authorize", request |-> c.request])
                EXCEPT !.ctx.pc = "authorize"]
        ELSE RouteTarget(chosen)

\* route(request, response) up to its first await, or to its end
route(rt, request, response) ==
    LET run == [rt |-> rt, ctx |-> Locals(request), res |-> response, ev |-> <<>>]
    IN  IF request.method = NoMethod THEN NotFound(run)
        ELSE IF request.method = "OPTIONS" THEN Sent(run, sendSuccess(rt, response))
        ELSE IF IsNullish(request.url) THEN NotFound(run)
        ELSE LET url == request.url.v
                 path == SubSeq(url, Len(rt.contextPath) + 1, Len(url))
                 index == IndexOf(path, "?")
                 located == [run EXCEPT
                    !.ctx.queryParameters =
                        IF index # 0
                        THEN QueryStringParse(SubSeq(path, index + 1, Len(path)))
                        ELSE undefined,
                    !.ctx.requestPath =
                        IF index # 0 THEN SubSeq(path, 1, index - 1) ELSE path,
                    !.ctx.requestContentType = RouterContentType(request)]
                 isAuth == \E i \in 1..Len(rt.authPaths) :
                                rt.authPaths[i].url = located.ctx.requestPath
             IN  IF index # 0 /\ index = Len(path) THEN NotFound(run)
                 ELSE IF isAuth /\ ~IsNullish(rt.authenticateFunction)
                 THEN [Called(Logged(located, "request"),
                              [e |-> "authenticate", request |-> request])
                         EXCEPT !.ctx.pc = "authenticate"]
                 ELSE RouteSpec(located)


\* After parse() resolved: validates the body and merges the path parameters
RouteBody(run, parsed) ==
    LET c == run.ctx
        requestSpec == IF ~IsNullish(c.requestContentType)
                       THEN Lookup(c.spec.requestBody.content, c.requestContentType.v)
                       ELSE undefined
        got == [run EXCEPT !.ctx.requestBody = parsed]
    IN  IF /\ ~Missing(requestSpec)
           /\ Has(requestSpec, "schema")
           /\ validate(parsed, requestSpec.schema, run.rt.components) = "throws"
        THEN NotSupported(got)
        ELSE IF Len(c.pathParameters) = 0 THEN RouteInvoke(got)
        \* spec.parameters.length of an operation without parameters, and
        \* requestBody[key] = ... of a null body, throw a TypeError
        ELSE IF ~Has(c.spec, "parameters") THEN Rejected(got, TypeError)
        ELSE IF IsNullish(parsed)
                /\ \E i \in 1..Len(c.pathParameters) :
                        i <= Len(c.spec.parameters) /\ c.spec.parameters[i].in = "path"
        THEN Rejected(got, TypeError)
        ELSE RouteInvoke([got EXCEPT !.ctx.requestBody =
                            BindPath(parsed, c.spec.parameters, c.pathParameters, 1)])

\* After import() resolved: looks the handler up and calls it
RouteHandler(run) ==
    LET c == run.ctx
        targetFunction == IF Has(c.target, "function")
                          THEN Export(c.target.module, c.target.function)
                          ELSE undefined
    IN  IF IsNullish(targetFunction) THEN NotFound(run)
        ELSE [Called(run, [e |-> "handler", function |-> targetFunction.v,
                           session |-> c.session, request |-> c.requestBody])
                EXCEPT !.ctx.pc = "handler"]

\* "validate response", after the handler returned.  No handler of the model
\* returns a DownloadFile.
RouteResponse(run, responseBody) ==
    LET c == run.ctx
        got == [run EXCEPT !.ctx.responseBody = responseBody]
        ok == IF Has(c.spec, "responses") THEN Lookup(c.spec.responses, "200") ELSE undefined
    IN  IF Missing(ok) THEN InternalError(got)
        ELSE IF ~IsNullish(responseBody) /\ Has(ok, "content")
        THEN LET responseSpec == ok.content
                 json == Lookup(responseSpec, ApplicationJson)
             IN  IF typeof(responseBody) = "object"
                 THEN IF Missing(json) THEN InternalError(got)
                      ELSE IF validate(responseBody, json.schema, run.rt.components) = "throws"
                      THEN InternalError(got)
                      ELSE Sent(got, sendJson(run.rt, run.res, responseBody))
                 ELSE IF typeof(responseBody) = "string"
                 THEN IF Missing(Lookup(responseSpec, TextPlain)) THEN InternalError(got)
                      ELSE Sent(got, sendText(run.rt, run.res, responseBody.v))
                 ELSE InternalError(got)
        ELSE IF IsNullish(responseBody) THEN Sent(got, sendSuccess(run.rt, run.res))
        ELSE InternalError(got)

-----------------------------------------------------------------------------
(* The application: hooks and handlers *)

Session == Obj(<<P(userId, Num(1)), P(companyId, Num(1))>>)

Token == Obj(<<P(<<"access_token">>, Str(Text("TOKEN"))),
               P(<<"token_type">>, Str(Text("Bearer")))>>)

\* What a hook or a handler can throw: an Error with an ErrorCode name, with
\* another name or with none, or a value that is not an Error
Thrown ==
    {Error(name, Text("message")) : name \in ErrorCode \cup {"TypeError", NoName}}
        \cup {Str(Text("boom")), null}

\* What the authorize hook can return (test/router.js returns Session)
Sessions == {Session, undefined}

\* What the authenticate hook can return (test/router.js returns Token)
Tokens == {Token, undefined}

\* What the handler of LogicModule can return
HandleResults ==
    {undefined,
     Obj(<<P(key1, Str(value1)), P(key2, Str(value2))>>),
     Obj(<<P(key1, Num(1))>>),
     Obj(<<P(key1, Str(value1)), P(key2, Num(1))>>),
     Str(Text("text")),
     Num(1)}

\* test/router.js testGet: [threw, value]
testGet(session, request) ==
    IF IsNullish(session) \/ Get(session, userId) = undefined \/ IsNullish(request)
    THEN [threw |-> TRUE, value |-> TypeError]
    ELSE [threw |-> FALSE,
          value |-> Obj(<<P(key1, Str(Stringify(Get(session, userId)))),
                          P(key2, Get(request, param1))>>)]

\* test/router.js testPost: [threw, value]
testPost(session, request) ==
    IF IsNullish(request) THEN [threw |-> TRUE, value |-> TypeError]
    ELSE [threw |-> FALSE,
          value |-> Obj(<<P(key1, Get(request, key1)), P(key2, Get(request, key2))>>)]

\* How a call of the named handler can end
HandlerOutcomes(function, session, request) ==
    IF function = "testGet" THEN {testGet(session, request)}
    ELSE IF function = "testPost" THEN {testPost(session, request)}
    ELSE {[threw |-> FALSE, value |-> x] : x \in HandleResults}
            \cup {[threw |-> TRUE, value |-> x] : x \in Thrown}


-----------------------------------------------------------------------------
(* The requests that arrive *)

Req(method, url, contentType, chunks) ==
    [method |-> method, url |-> url, contentType |-> contentType, chunks |-> chunks]

testQueryUrl == testPath \o <<"?">> \o param1 \o <<"=">> \o param1Value
testBareQueryUrl == testPath \o <<"?">>

GetUrls ==
    {Str(testPath), Str(testQueryUrl), Str(testBareQueryUrl), Str(tokenPath),
     Str(nopePath), Str(users42Path), Str(openPath), Str(deepPath),
     Str(usersMePath), Str(orders12Path), Str(items7Path),
     Str(searchPath), Str(searchFullUrl), Str(searchNoCountUrl), Str(pingPath),
     Str(usersAbcPath), Str(searchBadCountUrl), Str(users42QueryUrl),
     Str(things7Path)}

ContentTypes ==
    {undefined, Str(ApplicationJson),
     Str(<<"application/json", ";", " ", "charset=utf-8">>), Str(TextPlain)}

BodyOk == Obj(<<P(key1, Str(value1)), P(key2, Str(value2))>>)
BodyExtra == Obj(<<P(key1, Str(value1)), P(key2, Str(value2)), P(key3, Str(value1))>>)
BodyNoKey1 == Obj(<<P(key2, Str(value2))>>)
BodyNoKey2 == Obj(<<P(key1, Str(value1))>>)
BodyWrongType == Obj(<<P(key1, Num(1)), P(key2, Str(value2))>>)

Bodies ==
    {<<>>, <<Stringify(BodyOk)>>, <<Stringify(BodyExtra)>>, <<Stringify(BodyNoKey1)>>,
     <<Stringify(BodyNoKey2)>>, <<Stringify(BodyWrongType)>>, <<<<"{">>>>}

Requests ==
    {Req("GET", url, undefined, <<>>) : url \in GetUrls}
        \cup {Req("POST", Str(url), contentType, chunks) :
                url \in {testPath, strictPath},
                contentType \in ContentTypes, chunks \in Bodies}
        \cup {Req("OPTIONS", url, undefined, <<>>) :
                url \in {Str(testPath), Str(nopePath), Str(tokenPath), undefined}}
        \cup {Req("POST", Str(tokenPath), undefined, <<>>),
              Req("DELETE", Str(testPath), undefined, <<>>),
              Req(NoMethod, Str(testPath), undefined, <<>>),
              Req("GET", undefined, undefined, <<>>)}

-----------------------------------------------------------------------------
(* The server callback (cli.js, index.js) *)

\* String.prototype.startsWith
StartsWith(s, prefix) == Len(prefix) <= Len(s) /\ SubSeq(s, 1, Len(prefix)) = prefix

\* The callback of Http.createServer up to the first await of route().  The
\* setting has no healthCheckPath.
ServerCallback(rt, request) ==
    LET requestPath == IF ~IsNullish(request.url) THEN request.url.v ELSE <<>>
        served_ == \/ requestPath = rt.contextPath
                   \/ /\ StartsWith(requestPath, rt.contextPath)
                      /\ StartsWith(SubSeq(requestPath, Len(rt.contextPath) + 1,
                                           Len(requestPath)), <<"/">>)
        plain == <<P("Access-Control-Allow-Origin", rt.accessControl.allowOrigin),
                   P("X-Content-Type-Options", "nosniff"),
                   P("Content-Type", "text/plain")>>
    IN  IF served_ THEN route(rt, request, NewResponse)
        ELSE [rt |-> rt,
              ctx |-> [Locals(request) EXCEPT !.pc = "done"],
              res |-> end(write(writeHead(NewResponse, 404, <<>>, plain),
                                Str(NotFoundMessage))),
              ev |-> <<>>]

\* The catch of the server callback, run when route() rejected: the response
\* it leaves, `threw` set when one of its calls threw
ServerCatchResponse(rt, r) ==
    end(write(writeHead(r, 500, <<>>, TableSet(headers(rt), "Content-Type", "text/plain")),
              Str(AdministratorMessage)))

-----------------------------------------------------------------------------
(* Actions *)

Run == [rt |-> router, ctx |-> ctx, res |-> res, ev |-> ev]

Becomes(run) ==
    /\ router' = run.rt
    /\ ctx' = run.ctx
    /\ res' = run.res
    /\ ev' = run.ev

\* No call of route() is waiting
NoCall == [ctx |-> Locals(NoRequest), res |-> NewResponse, ev |-> <<>>]

\* A then() of the constructor runs: the hook is bound
HookImportResolves(h) ==
    /\ h \in pending
    /\ pending' = pending \ {h}
    /\ router' = IF h = "authentication"
                 THEN [router EXCEPT !.authenticateFunction =
                        Export(Setting.authentication.module, Setting.authentication.function)]
                 ELSE [router EXCEPT !.authorizeFunction =
                        Export(Setting.authorization.module, Setting.authorization.function)]
    /\ UNCHANGED <<ctx, res, ev, served, vin, vout, waiting>>

\* A request arrives once the one before was answered
Arrive(request) ==
    /\ ctx.pc \in {"idle", "done", "lost"}
    /\ served < MaxRequests
    /\ served' = served + 1
    /\ Becomes(ServerCallback(router, request))
    /\ UNCHANGED <<pending, vin, vout, waiting>>

AuthenticateReturns(result) ==
    /\ ctx.pc = "authenticate"
    /\ LET run == Returned(Run, "authenticate", result)
           r == sendJson(router, res, result)
       IN  Becomes(IF r.threw
                   THEN Caught([run EXCEPT !.res = [r EXCEPT !.threw = FALSE]], ResponseError)
                   ELSE Sent(run, r))
    /\ UNCHANGED <<pending, served, vin, vout, waiting>>

AuthenticateThrows(error) ==
    /\ ctx.pc = "authenticate"
    /\ Becomes(Caught(Threw(Run, "authenticate", error), error))
    /\ UNCHANGED <<pending, served, vin, vout, waiting>>

AuthorizeReturns(session) ==
    /\ ctx.pc = "authorize"
    /\ Becomes(RouteTarget([Returned(Run, "authorize", session)
                                EXCEPT !.ctx.session = session]))
    /\ UNCHANGED <<pending, served, vin, vout, waiting>>

AuthorizeThrows(error) ==
    /\ ctx.pc = "authorize"
    /\ Becomes(Caught(Logged(Threw(Run, "authorize", error), "request"), error))
    /\ UNCHANGED <<pending, served, vin, vout, waiting>>

ParseResolves ==
    /\ ctx.pc = "parse"
    /\ ~parse(ctx.request).rejected
    /\ Becomes(RouteBody(Run, parse(ctx.request).value))
    /\ UNCHANGED <<pending, served, vin, vout, waiting>>

ParseRejects ==
    /\ ctx.pc = "parse"
    /\ parse(ctx.request).rejected
    /\ Becomes(Rejected(Run, parse(ctx.request).value))
    /\ UNCHANGED <<pending, served, vin, vout, waiting>>

ImportResolves ==
    /\ ctx.pc = "import"
    /\ Becomes(RouteHandler(Run))
    /\ UNCHANGED <<pending, served, vin, vout, waiting>>

HandlerReturns ==
    /\ ctx.pc = "handler"
    /\ \E o \in HandlerOutcomes(ctx.target.function, ctx.session, ctx.requestBody) :
        /\ ~o.threw
        /\ Becomes(RouteResponse(Returned(Run, "handler", o.value), o.value))
    /\ UNCHANGED <<pending, served, vin, vout, waiting>>

HandlerThrows ==
    /\ ctx.pc = "handler"
    /\ \E o \in HandlerOutcomes(ctx.target.function, ctx.session, ctx.requestBody) :
        /\ o.threw
        /\ Becomes(Caught(Threw(Run, "handler", o.value), o.value))
    /\ UNCHANGED <<pending, served, vin, vout, waiting>>

\* The promise of route() rejected: the catch of the server callback answers.
\* When it throws itself nothing answers: the request is lost.
ServerCatch ==
    /\ ctx.pc = "rejected"
    /\ LET r == ServerCatchResponse(router, res)
       IN  /\ res' = [r EXCEPT !.threw = FALSE]
           /\ ctx' = [ctx EXCEPT !.pc = IF r.threw THEN "lost" ELSE "done"]
    /\ UNCHANGED <<router, pending, ev, served, vin, vout, waiting>>

\* The setting with the paths of its interface declared in the opposite order
SettingReversed == [Setting EXCEPT !.interface.paths = Reverse(@)]

\* The setting with httpsOnly, a custom header that is also a fixed one, and a
\* custom error header
SettingCustom ==
    [f \in DOMAIN Setting \cup {"customHeaders", "customErrorHeaders"} |->
        IF f = "customHeaders" THEN Obj(<<P("Cache-Control", "max-age=60")>>)
        ELSE IF f = "customErrorHeaders" THEN Obj(<<P("X-Frame-Options", "DENY")>>)
        ELSE IF f = "accessControl"
        THEN [g \in DOMAIN Setting.accessControl \cup {"httpsOnly"} |->
                IF g = "httpsOnly" THEN TRUE ELSE Setting.accessControl[g]]
        ELSE Setting[f]]

Settings == {Setting, SettingReversed, SettingCustom}

Init ==
    /\ router \in {Constructor(setting) : setting \in Settings}
    /\ pending = HookImports(Setting)
    /\ ctx = Locals(NoRequest)
    /\ res = NewResponse
    /\ ev = <<>>
    /\ served = 0
    /\ vin = [value |-> null, spec |-> [type |-> "null"], components |-> undefined]
    /\ vout = "idle"
    /\ waiting = NoCall

Next ==
    \/ \E h \in {"authentication", "authorization"} : HookImportResolves(h)
    \/ \E request \in Requests : Arrive(request)
    \/ \E result \in Tokens : AuthenticateReturns(result)
    \/ \E error \in Thrown : AuthenticateThrows(error)
    \/ \E session \in Sessions : AuthorizeReturns(session)
    \/ \E error \in Thrown : AuthorizeThrows(error)
    \/ ParseResolves
    \/ ParseRejects
    \/ ImportResolves
    \/ HandlerReturns
    \/ HandlerThrows
    \/ ServerCatch

Spec == Init /\ [][Next]_vars

-----------------------------------------------------------------------------
(* Validator.validate on its own *)

InitV ==
    /\ router = Constructor(Setting)
    /\ pending = HookImports(Setting)
    /\ ctx = Locals(NoRequest)
    /\ res = NewResponse
    /\ ev = <<>>
    /\ served = 0
    /\ vin \in InputsV
    /\ vout = "idle"
    /\ waiting = NoCall

MaxValidations == 2

\* An object in the call with its identity: the schema node the caller gave
\* is "spec", an object literal of the call is "fresh"
Node(id, fields) == [id |-> id, fields |-> fields]

\* An assignment that hands back the source itself
ObjectAssignSource(target, source) == source

\* Object.assign(target, source) for an empty target: the target, with the
\* properties of the source
ObjectAssign(target, source) == Node(target.id, source.fields)

\* _spec.type = type
TypeWritten(fields, type) ==
    [f \in (DOMAIN fields \ {"typeList"}) \cup {"type"} |->
        IF f = "type" THEN type ELSE fields[f]]

\* The schema node the caller gave after the forEach over the type names, from
\* the i-th on: each round writes to _spec
RECURSIVE SchemaAfterTypes(_, _, _)
SchemaAfterTypes(spec, types, i) ==
    IF i > Len(types) THEN spec
    ELSE LET _spec == ObjectAssign(Node("fresh", <<>>), Node("spec", spec))
             written == TypeWritten(_spec.fields, types[i])
         IN  SchemaAfterTypes(IF _spec.id = "spec" THEN written ELSE spec, types, i + 1)

\* The schema node the caller gave after validate(): the branch of the type
\* array is the only one that assigns to a property of an object
SchemaAfter(spec) ==
    IF /\ Has(spec, "typeList")
       /\ TypeName(spec) \notin {"string", "number", "boolean", "object", "array", "null"}
    THEN SchemaAfterTypes(spec, spec.typeList, 1)
    ELSE spec

\* Validator.validate(value, spec, components) is called, for the first time
\* or again with the same objects
ValidateCall ==
    /\ Len(ev) < MaxValidations
    /\ vout' = validate(vin.value, vin.spec, vin.components)
    /\ vin' = [vin EXCEPT !.spec = SchemaAfter(vin.spec)]
    /\ ev' = Append(ev, [e |-> "validated", input |-> vin, outcome |-> vout'])
    /\ UNCHANGED <<router, pending, ctx, res, served, waiting>>

NextV == ValidateCall

SpecV == InitV /\ [][NextV]_vars


-----------------------------------------------------------------------------
(* Properties *)

\* The positions of ev that hold an event of kind e
At(e) == {i \in 1..Len(ev) : ev[i].e = e}

\* The calls that ended by returning, and by throwing
ReturnsOf(by) == {i \in At("returned") : ev[i].by = by}
ThrowsOf(by) == {i \in At("threw") : ev[i].by = by}

\* The request was answered, or nothing is left that would answer it
Settled == ctx.pc \in {"done", "lost"}

\* The error table: the status and the body an error is to be answered with
IsCoded(error) == error.t = "error" /\ error.name \in ErrorCode

TableStatus(error) ==
    IF ~IsCoded(error) THEN 500
    ELSE CASE error.name = "JwtParseError" -> 400
           [] error.name = "AuthenticationError" -> 401
           [] error.name = "AuthorizationError" -> 403
           [] error.name = "RequestError" -> 400
           [] error.name = "StateError" -> 403
           [] error.name = "NotFoundError" -> 404

TableBody(error) == IF IsCoded(error) THEN error.message ELSE AdministratorMessage

AnsweredWith(statusCode, text) ==
    /\ ctx.pc = "done"
    /\ res.ended
    /\ res.statusCode = statusCode
    /\ res.body = <<text>>

\* C1: the authorize hook is called with the raw request before the parser and
\* the handler; what it returns is the session the handler gets; when it
\* raises, neither the parser nor the handler is called and the response is
\* the one the error table gives for the error.
C1_AuthorizeBeforeHandler ==
    /\ \A i \in At("authorize") :
        /\ ev[i].request = ctx.request
        /\ \A j \in 1..(i - 1) : ev[j].e \notin {"parse", "handler"}
    /\ \A i \in ReturnsOf("authorize") :
        \A j \in At("handler") : ev[j].session = ev[i].value
    /\ \A i \in ThrowsOf("authorize") :
        /\ At("parse") = {}
        /\ At("handler") = {}
        /\ Settled => AnsweredWith(TableStatus(ev[i].error), TableBody(ev[i].error))

\* C2: the handler of an operation that declares security is never called
\* unless the authorize hook was called and returned for the request, whenever
\* the request arrives.
C2_NoHandlerWithoutAuthorize ==
    \A i \in At("handler") :
        Has(ctx.spec, "security") =>
            \E j \in ReturnsOf("authorize") : j < i

\* request.url without the context path and the query string
NormalizedPath(request) ==
    LET path == SubSeq(request.url.v, Len(router.contextPath) + 1, Len(request.url.v))
        index == IndexOf(path, "?")
    IN  IF index # 0 THEN SubSeq(path, 1, index - 1) ELSE path

\* The request has a method and a URL, and its path is no token URL, no key of
\* the path table and nothing the path resolver resolves
Unroutable(request) ==
    /\ request.method # NoMethod
    /\ ~IsNullish(request.url)
    /\ LET path == NormalizedPath(request)
       IN  /\ \A i \in 1..Len(router.authPaths) : router.authPaths[i].url # path
           /\ ~HasKey(router.paths, path)
           /\ IsNullish(retrievePathParameters(router.paths, path, <<>>).path)

NotFoundUnhooked ==
    /\ AnsweredWith(404, NotFoundMessage)
    /\ At("authorize") = {}
    /\ At("handler") = {}

C4_CodedErrorsMapped ==
    \A i \in At("threw") :
        IsCoded(ev[i].error) =>
            AnsweredWith(TableStatus(ev[i].error), ev[i].error.message)

C4_Witness ==
    /\ \E i \in ThrowsOf("handler") :
        IsCoded(ev[i].error) /\ ev[i].error.name = "StateError"
    /\ AnsweredWith(403, Text("message"))

\* C5: anything else that is raised, an Error of another name or of none or a
\* value that is no Error, is answered with status 500 and the fixed
\* administrator message.
C5_OtherErrorsAre500 ==
    \A i \in At("threw") :
        (~IsCoded(ev[i].error) /\ Settled) => AnsweredWith(500, AdministratorMessage)

\* C6: a failure route() does not handle is caught by the catch of the server
\* callback and answered with status 500 and the fixed administrator message;
\* no request whose route() failed is left without a response.
C6_OutermostCatchAnswers ==
    /\ ctx.pc # "lost"
    /\ (ctx.pc = "done" /\ ctx.error # undefined) => AnsweredWith(500, AdministratorMessage)

\* GET /test?param1=p1V, the request of the router test
GetWithQuery == Req("GET", Str(testQueryUrl), undefined, <<>>)

\* C7: for the GET of a declared literal path whose operation declares
\* security and a string query parameter, with the authorize hook bound, the
\* handler is called with the session the hook returned and with a request
\* object that holds the query value under the parameter's name; when the
\* handler returns an object that matches the schema of response 200, the
\* answer is 200 with that object as JSON.
C7_GetWithQueryParameter ==
    (ctx.request = GetWithQuery /\ At("authorize") # {}) =>
        /\ \A i \in At("handler") :
            /\ \E j \in ReturnsOf("authorize") : j < i /\ ev[i].session = ev[j].value
            /\ Get(ev[i].request, param1) = Str(param1Value)
        /\ \A i \in ReturnsOf("handler") :
            (/\ ev[i].value.t = "object"
             /\ validate(ev[i].value, TestResponseSchema, router.components) # "throws")
            => /\ AnsweredWith(200, Stringify(ev[i].value))
               /\ Lookup(res.headers, "Content-Type") = "application/json"

C7_Witness ==
    /\ ctx.request = GetWithQuery
    /\ \E i \in At("handler") :
        ev[i].session = Session /\ ev[i].request = Obj(<<P(param1, Str(param1Value))>>)
    /\ AnsweredWith(200, Stringify(Obj(<<P(key1, Str(<<"1">>)), P(key2, Str(param1Value))>>)))

\* POST with content type application/json and the JSON text of body
PostJson(path, body) == Req("POST", Str(path), Str(ApplicationJson), <<Stringify(body)>>)

\* C8: for a POST with content type application/json whose JSON body matches
\* the requestBody schema, the handler gets the decoded body, its declared
\* properties readable by name, and the answer is 200 with the object the
\* handler returned as JSON.
C8_PostJsonBody ==
    (ctx.request = PostJson(testPath, BodyOk) /\ ReturnsOf("authorize") # {} /\ Settled) =>
        /\ \E i \in At("handler") :
            /\ Get(ev[i].request, key1) = Str(value1)
            /\ Get(ev[i].request, key2) = Str(value2)
        /\ \E i \in ReturnsOf("handler") : AnsweredWith(200, Stringify(ev[i].value))

RequiresKey1(spec) ==
    /\ Has(spec, "properties")
    /\ Declares(spec, key1)
    /\ Requires(spec, key1)

\* key1 of the value fits the schema declared for it
Key1Fits(value, spec) ==
    \E i \in 1..Len(spec.properties) :
        /\ spec.properties[i].k = key1
        /\ spec.properties[i].v.type = typeof(Get(value, key1))

\* No other declared property is present in the value or required
OnlyKey1(value, spec) ==
    \A i \in 1..Len(spec.properties) :
        spec.properties[i].k # key1 =>
            /\ Get(value, spec.properties[i].k) = undefined
            /\ ~Requires(spec, spec.properties[i].k)

\* C10: for every object schema that declares key1 and lists it in required,
\* whatever else it declares before or after, validating an object without
\* key1 raises, and validating an object whose key1 fits, the other declared
\* properties absent and not required, succeeds.
C10_RequiredKey1 ==
    (vout # "idle" /\ RequiresKey1(vin.spec) /\ vin.value.t = "object") =>
        /\ Get(vin.value, key1) = undefined => vout = "throws"
        /\ (Key1Fits(vin.value, vin.spec) /\ OnlyKey1(vin.value, vin.spec))
            => vout # "throws"



\* The branches of the oneOf under validation that validate the value
ValidBranches ==
    {i \in 1..Len(vin.spec.oneOf) :
        validate(vin.value, vin.spec.oneOf[i], vin.components) # "throws"}

\* C11: for a schema with oneOf and no type, validation succeeds if and only
\* if exactly one branch validates the value: it raises when none does, when
\* two or more do, and when oneOf has no branch.
C11_OneOfExactlyOne ==
    (vout # "idle" /\ Has(vin.spec, "oneOf") /\ ~Has(vin.spec, "type")) =>
        (vout # "throws" <=> Cardinality(ValidBranches) = 1)


\* The name a reference ends with
RefName(ref) == ref[Len(ref)]

\* The reference leads to a schema under components.schemas: the registry is
\* there, holds the name, and what it holds is more than a reference
LeadsToSchema(spec, components) ==
    /\ ~Missing(components)
    /\ Has(components, "schemas")
    /\ HasKey(components.schemas, RefName(spec.ref))
    /\ DOMAIN Lookup(components.schemas, RefName(spec.ref)) # {"ref"}

\* C12: validating a value against a schema node that carries $ref raises
\* whenever the reference does not lead to a schema under components.schemas
\* (name missing, registry absent, component itself only a $ref), and succeeds
\* only as the check of the value against the resolved schema does.
C12_RefFailsClosed ==
    (vout # "idle" /\ Has(vin.spec, "ref") /\ ~Has(vin.spec, "type")) =>
        IF LeadsToSchema(vin.spec, vin.components)
        THEN vout = validate(vin.value, Lookup(vin.components.schemas, RefName(vin.spec.ref)),
                             vin.components)
        ELSE vout = "throws"


\* An object schema with declared properties, applied to an object
ObjectCall ==
    /\ vout # "idle"
    /\ Has(vin.spec, "type") /\ vin.spec.type = "object"
    /\ Has(vin.spec, "properties")
    /\ vin.value.t = "object"

\* The declared property i is present in the value and does not fit its schema
PropertyUnfit(i) ==
    LET childValue == Get(vin.value, vin.spec.properties[i].k)
    IN  /\ childValue # undefined
        /\ validate(childValue, vin.spec.properties[i].v, vin.components) = "throws"

\* The declared property i is absent from the value and required
PropertyLacking(i) ==
    /\ Get(vin.value, vin.spec.properties[i].k) = undefined
    /\ Requires(vin.spec, vin.spec.properties[i].k)

\* C13: for an object schema with declared properties, every declared property
\* present in the value is validated against its schema, not only the first:
\* the validation raises when any of them is unfit; and properties the schema
\* does not declare never make it fail (it succeeds when no declared property
\* is unfit or lacking).
C13_EveryDeclaredProperty ==
    ObjectCall =>
        /\ (\E i \in 1..Len(vin.spec.properties) : PropertyUnfit(i)) => vout = "throws"
        /\ (\A i \in 1..Len(vin.spec.properties) : ~PropertyUnfit(i) /\ ~PropertyLacking(i))
            => vout # "throws"


\* An array schema applied to an array
ArrayCall ==
    /\ vout # "idle"
    /\ Has(vin.spec, "type") /\ vin.spec.type = "array"
    /\ vin.value.t = "array"

\* C14: for an array schema, every element of the array is validated against
\* items (the validation raises exactly when some element is unfit), and a
\* non-empty array against an array schema without items raises.
C14_EveryElement ==
    ArrayCall =>
        IF Has(vin.spec, "items")
        THEN vout = "throws" <=>
                \E i \in 1..Len(vin.value.v) :
                    validate(vin.value.v[i], vin.spec.items, vin.components) = "throws"
        ELSE Len(vin.value.v) > 0 => vout = "throws"


\* The path of the request in hand is itself a key of the path table
LiteralKey == ctx.pc # "idle" /\ HasKey(router.paths, ctx.requestPath)

\* The operation and the route the tables hold for the request's path and method
OperationAt(path) == Field(Lookup(router.paths, path), ToLowerCase(ctx.request.method))
TargetAt(path) == Lookup(Lookup(router.routeDefinition, path), ToLowerCase(ctx.request.method))

\* C15: when the normalized request path is itself a key of the path table,
\* the operation and the route are taken from that key and no path parameters
\* are extracted, even when a declared template would match the path too.
C15_LiteralKeyWins ==
    LiteralKey =>
        /\ ctx.pathParameters = <<>>
        /\ IsNullish(ctx.pathWithPathParameters)
        /\ ~Missing(ctx.spec) => ctx.spec = OperationAt(ctx.requestPath)
        /\ \A i \in At("handler") : ev[i].function = TargetAt(ctx.requestPath).function

\* The handler of /users/me was called, for a path /users/{id} matches too
C15_Witness ==
    /\ LiteralKey
    /\ ctx.requestPath = usersMePath
    /\ retrievePathParameters(router.paths, usersMePath, <<>>).path = Str(usersIdPath)
    /\ \E i \in At("handler") : ev[i].function = "me" /\ ev[i].request = undefined


\* The key is a literal prefix followed by one placeholder, such as /users/{id}
OnePlaceholder(key) ==
    LET index == LastIndexOf(key, "/")
    IN  /\ index > 1
        /\ index + 2 < Len(key)
        /\ key[index + 1] = "{" /\ key[Len(key)] = "}"
        /\ \A i \in 1..index : key[i] \notin {"{", "}"}

\* The path is the prefix of the template followed by one segment
UnderPrefix(key, path) ==
    LET index == LastIndexOf(key, "/")
    IN  /\ LastIndexOf(path, "/") = index
        /\ index < Len(path)
        /\ SubSeq(path, 1, index) = SubSeq(key, 1, index)

\* The parameter declared first for the GET of the template
DeclaredParameter(key) ==
    LET item == Lookup(router.paths, key)
    IN  IF Has(item, "parameters") THEN item.parameters[1] ELSE item.get.parameters[1]

\* A GET of /prefix/<v> without a query string, for a path that is no key
OneSegmentRequest(key) ==
    /\ ctx.pc # "idle"
    /\ ctx.request.method = "GET"
    /\ ~IsNullish(ctx.request.url)
    /\ ctx.requestPath = ctx.request.url.v
    /\ ~HasKey(router.paths, ctx.requestPath)
    /\ OnePlaceholder(key)
    /\ UnderPrefix(key, ctx.requestPath)

\* C16: for a declared template of a literal prefix and one placeholder, such
\* as /users/{id}, and a request /users/<v> that is not itself declared, the
\* template is selected with the single value <v>, and the handler gets <v>
\* under the parameter's declared name: as a number when the parameter's
\* schema type is number, as the string otherwise.
C16_OnePlaceholderTemplate ==
    \A k \in 1..Len(router.paths) :
        LET key == router.paths[k].k
            v == SubSeq(ctx.requestPath, LastIndexOf(key, "/") + 1, Len(ctx.requestPath))
        IN  OneSegmentRequest(key) =>
                /\ ctx.pathWithPathParameters = Str(key)
                /\ ctx.pathParameters = <<v>>
                /\ \A i \in At("handler") :
                        ev[i].request =
                            Obj(<<P(DeclaredParameter(key).name,
                                    IF DeclaredParameter(key).schema.type = "number"
                                    THEN Number(v) ELSE Str(v))>>)


\* The segment is a placeholder {name}
IsPlaceholder(segment) ==
    Len(segment) > 2 /\ segment[1] = "{" /\ segment[Len(segment)] = "}"

\* The template has a literal segment between two placeholders
LiteralBetweenPlaceholders(key) ==
    LET segments == Split(key, "/")
    IN  \E i, j, k \in 1..Len(segments) :
            /\ i < j /\ j < k
            /\ IsPlaceholder(segments[i])
            /\ ~IsPlaceholder(segments[j])
            /\ IsPlaceholder(segments[k])

\* The path has the segments of the template, but for the placeholders
TemplateFits(key, path) ==
    LET segments == Split(key, "/")
        given == Split(path, "/")
    IN  /\ Len(segments) = Len(given)
        /\ \A i \in 1..Len(segments) :
                IF IsPlaceholder(segments[i]) THEN Len(given[i]) > 0
                ELSE segments[i] = given[i]

\* The segments of the path at the placeholders of the template, left to right
RECURSIVE ValuesFrom(_, _, _)
ValuesFrom(segments, given, i) ==
    IF i > Len(segments) THEN <<>>
    ELSE IF IsPlaceholder(segments[i])
         THEN <<given[i]>> \o ValuesFrom(segments, given, i + 1)
         ELSE ValuesFrom(segments, given, i + 1)

TemplateValues(key, path) == ValuesFrom(Split(key, "/"), Split(path, "/"), 1)

\* C17: for a declared template with a literal segment between placeholders,
\* such as /users/{id}/orders/{orderId}, and a request /users/<a>/orders/<b>,
\* the template is selected and the parameter values are <a>, <b>, in the
\* order of the placeholders.
C17_LiteralBetweenPlaceholders ==
    \A k \in 1..Len(router.paths) :
        LET key == router.paths[k].k
        IN  (/\ ctx.pc # "idle"
             /\ ctx.request.method = "GET"
             /\ ~IsNullish(ctx.request.url)
             /\ ctx.requestPath = ctx.request.url.v
             /\ ~HasKey(router.paths, ctx.requestPath)
             /\ LiteralBetweenPlaceholders(key)
             /\ TemplateFits(key, ctx.requestPath))
            => /\ ctx.pathWithPathParameters = Str(key)
               /\ ctx.pathParameters = TemplateValues(key, ctx.requestPath)


\* The place of the first "?" in the URL of the request in hand
QueryIndex == IndexOf(ctx.request.url.v, "?")

\* A GET whose URL has a query string
QueryRequest ==
    /\ ctx.pc # "idle"
    /\ ctx.request.method = "GET"
    /\ ~IsNullish(ctx.request.url)
    /\ QueryIndex \notin {0, Len(ctx.request.url.v)}

\* What QueryString.parse makes of the part after the first "?"
QueryGiven ==
    QueryStringParse(SubSeq(ctx.request.url.v, QueryIndex + 1, Len(ctx.request.url.v)))

\* The query parameters the operation chosen for the request declares
QueryDeclared ==
    LET operation == ctx.spec
    IN  IF Missing(operation) \/ ~Has(operation, "parameters") THEN {}
        ELSE {operation.parameters[i] : i \in
                {j \in 1..Len(operation.parameters) : operation.parameters[j].in = "query"}}

\* C18: for a request URL with a query string, the part before the first "?"
\* selects the declared path, and the handler gets each declared query
\* parameter the query supplies under its name: as the raw string when its
\* schema type is string, even when it is all digits, and cast to a number
\* only when its schema type is number.
C18_QueryParametersBound ==
    QueryRequest =>
        /\ ctx.requestPath = SubSeq(ctx.request.url.v, 1, QueryIndex - 1)
        /\ \A i \in At("handler") :
                \A parameter \in QueryDeclared :
                    LET raw == Get(QueryGiven, parameter.name)
                    IN  raw # undefined =>
                            Get(ev[i].request, parameter.name) =
                                IF parameter.schema.type = "number"
                                THEN Number(raw.v) ELSE raw

\* The handler of /search got q as the string "42" and count as the number 7
C18_Witness ==
    /\ QueryRequest
    /\ ctx.request.url = Str(searchFullUrl)
    /\ ctx.requestPath = searchPath
    /\ \E i \in At("handler") :
            ev[i].request = Obj(<<P(qName, Str(<<"4", "2">>)), P(countName, Num(7))>>)


\* The query of the request in hand: what it supplies, or nothing
QuerySupplied ==
    IF QueryIndex = 0 THEN Obj(<<>>) ELSE QueryGiven

\* A GET of a declared path whose operation declares a required query
\* parameter that the request does not supply
RequiredLacking ==
    /\ ctx.pc # "idle"
    /\ ctx.request.method = "GET"
    /\ ~IsNullish(ctx.request.url)
    /\ QueryIndex # Len(ctx.request.url.v)
    /\ HasKey(router.paths, ctx.requestPath)
    /\ ~Missing(OperationAt(ctx.requestPath))
    /\ \E parameter \in QueryDeclared :
            /\ Has(parameter, "required") /\ parameter.required
            /\ Get(QuerySupplied, parameter.name) = undefined

\* C19: when the operation declares a parameter with required: true and the
\* request does not supply it, a request without any query string included,
\* the handler is not called and the answer is 400.
C19_RequiredParameter ==
    (RequiredLacking /\ ThrowsOf("authorize") = {}) =>
        /\ At("handler") = {}
        /\ ctx.pc = "done" => res.statusCode = 400


\* C20: after construction, route() never modifies the operation-spec table,
\* the component registry or the route table: in every state they are what
\* the constructor made of the setting.
C20_TablesUnmodified ==
    \E setting \in Settings :
        /\ router.paths = Constructor(setting).paths
        /\ router.components = Constructor(setting).components
        /\ router.routeDefinition = Constructor(setting).routeDefinition


-----------------------------------------------------------------------------
(* Requests in flight at the same time *)

(* The server callback runs once per request, and route() gives the event   *)
(* loop back at each of its awaits.  The call in hand (ctx, res, ev) can be  *)
(* set aside at an await while another request arrives and is routed; the    *)
(* router is the one object both calls share.                                *)

\* The places where route() awaits
Awaits == {"authenticate", "authorize", "parse", "import", "handler"}

\* The call in hand stays at its await; the event loop is free for a request
Suspend ==
    /\ ctx.pc \in Awaits
    /\ waiting = NoCall
    /\ waiting' = [ctx |-> ctx, res |-> res, ev |-> ev]
    /\ ctx' = NoCall.ctx
    /\ res' = NoCall.res
    /\ ev' = NoCall.ev
    /\ UNCHANGED <<router, pending, served, vin, vout>>

\* What the waiting call awaited is about to settle: it is the call in hand again
Resume ==
    /\ ctx.pc \in {"idle", "done", "lost"}
    /\ waiting # NoCall
    /\ ctx' = waiting.ctx
    /\ res' = waiting.res
    /\ ev' = waiting.ev
    /\ waiting' = NoCall
    /\ UNCHANGED <<router, pending, served, vin, vout>>

\* The requests of the concurrent runs: a GET with a query, a POST with a
\* body that parses and one that does not, and a token request
ConcurrentRequests ==
    {Req("GET", Str(testQueryUrl), undefined, <<>>),
     Req("POST", Str(testPath), Str(ApplicationJson), <<Stringify(BodyOk)>>),
     Req("POST", Str(testPath), Str(ApplicationJson), <<<<"{">>>>),
     Req("POST", Str(tokenPath), undefined, <<>>)}

\* The steps that take the call in hand from an await to its next await or
\* to its answer, the hooks returning what test/router.js returns or raising
\* an error with an error code
Continues ==
    \/ AuthenticateReturns(Token)
    \/ \E error \in {e \in Thrown : IsCoded(e)} : AuthenticateThrows(error)
    \/ \E session \in Sessions : AuthorizeReturns(session)
    \/ \E error \in {e \in Thrown : IsCoded(e)} : AuthorizeThrows(error)
    \/ ParseResolves
    \/ ParseRejects
    \/ ImportResolves
    \/ HandlerReturns
    \/ HandlerThrows
    \/ ServerCatch

NextConcurrent ==
    \/ \E h \in {"authentication", "authorization"} : HookImportResolves(h)
    \/ \E request \in ConcurrentRequests : Arrive(request)
    \/ Suspend
    \/ Resume
    \/ Continues

\* What the call in hand awaits settles; nothing says that what a waiting
\* call awaits ever does
InitConcurrent == Init /\ router = Constructor(Setting)

SpecConcurrent == InitConcurrent /\ [][NextConcurrent]_vars /\ WF_vars(Continues)

\* C21: while one request is suspended in its authorize hook, in the body
\* parser or in its handler, and may stay there for ever, any other request
\* that arrived is routed to its answer.
C21_OthersAnswered ==
    (waiting.ctx.pc \in {"authorize", "parse", "handler"} /\ ctx.pc # "idle")
        ~> (ctx.pc = "done" /\ res.ended)

\* A request was answered 200 while another one is suspended in its handler
C21_Witness ==
    /\ waiting.ctx.pc = "handler"
    /\ ctx.pc = "done" /\ res.ended /\ res.statusCode = 200
    /\ ReturnsOf("handler") # {}


\* The response carries the header with that value
Carries(name, value) == HasKey(res.headers, name) /\ Lookup(res.headers, name) = value

\* C22: every response written with a header, success or error, whatever
\* customHeaders and customErrorHeaders are, carries
\* Access-Control-Allow-Origin, X-Content-Type-Options: nosniff and
\* Cache-Control: no-store, and Strict-Transport-Security when httpsOnly is set.
C22_FixedHeaders ==
    res.writeHeads > 0 =>
        /\ Carries("Access-Control-Allow-Origin", router.accessControl.allowOrigin)
        /\ Carries("X-Content-Type-Options", "nosniff")
        /\ Carries("Cache-Control", "no-store")
        /\ router.accessControl.httpsOnly => HasKey(res.headers, "Strict-Transport-Security")


\* The method keys the route document gives for the path, as written
WrittenKeys(path) == Range(Keys(Lookup(Setting.route, path)))

\* C23: route-definition method keys are case-insensitive on input: after
\* construction every method key is lowercase, and a GET of a declared path
\* whose route entry is keyed GET, get or Get finds its routing target.
C23_MethodKeysNormalized ==
    /\ \A i \in 1..Len(router.routeDefinition) :
            \A j \in 1..Len(router.routeDefinition[i].v) :
                router.routeDefinition[i].v[j].k \in {"get", "post", "delete", "options"}
    /\ (/\ ctx.pc # "idle"
        /\ ctx.request.method = "GET"
        /\ HasKey(Setting.route, ctx.requestPath)
        /\ WrittenKeys(ctx.requestPath) \cap {"GET", "get", "Get"} # {})
       => \A i \in At("log") : ev[i].line # "nomodule"


\* The request in hand went through the body parser, which resolved
BodyParsed ==
    /\ ctx.pc \notin {"idle", "parse"}
    /\ At("parse") # {}
    /\ ~parse(ctx.request).rejected

\* The body the parser decoded from the request in hand
DecodedBody ==
    LET parsed == parse(ctx.request).value
    IN  IF IsNullish(parsed) THEN parsed ELSE Get(parsed, dataKey)

\* The schema the operation declares for the content type of the request,
\* the part of the header before ";" taken as route() takes it
DeclaredBodySchema ==
    LET content == OperationAt(ctx.requestPath).requestBody.content
        declared == /\ ~IsNullish(ctx.requestContentType)
                    /\ HasKey(content, ctx.requestContentType.v)
                    /\ Has(Lookup(content, ctx.requestContentType.v), "schema")
    IN  IF declared THEN Lookup(content, ctx.requestContentType.v).schema ELSE undefined

\* C24: when the operation declares a requestBody and the parsed body fails
\* the validation against the schema declared for the content type of the
\* request, the handler is not called and the answer is 400 "Request format
\* is not supported."
C24_InvalidBodyIs400 ==
    (/\ BodyParsed
     /\ ~Missing(DeclaredBodySchema)
     /\ validate(DecodedBody, DeclaredBodySchema, router.components) = "throws")
    => /\ At("handler") = {}
       /\ ctx.pc \notin {"import", "handler"}
       /\ ctx.pc = "done" => AnsweredWith(400, RequestFormatMessage)


\* The handler of an operation that declares a requestBody was called
BodyHandlerCalled ==
    /\ At("handler") # {}
    /\ HasKey(router.paths, ctx.requestPath)
    /\ Has(OperationAt(ctx.requestPath), "requestBody")

\* C25: whenever the handler of an operation that declares a requestBody is
\* called, a schema of requestBody.content was found for the request and the
\* parsed body passed the validation against it: a request whose Content-Type
\* is absent or not declared never reaches the handler unvalidated.
C25_HandlerOnlyAfterValidation ==
    BodyHandlerCalled =>
        /\ ~Missing(DeclaredBodySchema)
        /\ validate(DecodedBody, DeclaredBodySchema, router.components) # "throws"


\* What the handler of the request in hand returned, once route() went on
HandlerReturned(value) ==
    /\ ctx.pc \in {"done", "rejected", "lost"}
    /\ \E i \in ReturnsOf("handler") : ev[i].value = value

\* Response "200" of the operation of the request in hand, or undefined
Response200 ==
    IF Has(ctx.spec, "responses") THEN Lookup(ctx.spec.responses, "200") ELSE undefined

\* C26: when the handler returns nothing (null or undefined) and response
\* "200" of the operation declares content, the answer is 500; it is the
\* plain 200 without body only when response "200" declares no content.
C26_NothingReturned ==
    \A nothing \in {undefined, null} :
        (HandlerReturned(nothing) /\ ~Missing(Response200) /\ ctx.pc = "done") =>
            IF Has(Response200, "content")
            THEN res.statusCode = 500
            ELSE res.statusCode = 200 /\ res.body = <<>>


\* The object does not fit the object schema: a declared property it has does
\* not fit the schema of that property, or a required one is lacking
ObjectUnfit(value, schema) ==
    \E i \in 1..Len(schema.properties) :
        LET childValue == Get(value, schema.properties[i].k)
        IN  IF childValue = undefined
            THEN Has(schema, "required") /\ Requires(schema, schema.properties[i].k)
            ELSE validate(childValue, schema.properties[i].v, router.components) = "throws"

\* The application/json entry of the content of response "200", or undefined
JsonResponse ==
    IF ~Missing(Response200) /\ Has(Response200, "content")
    THEN Lookup(Response200.content, ApplicationJson) ELSE undefined

\* C27: a plain object the handler returns is emitted (200, JSON) only if it
\* fits the application/json schema of response "200"; when it does not, or
\* when no application/json media type is declared, the answer is 500
\* "Internal server error." and the object is not sent.
C27_ObjectMustFit ==
    \A i \in ReturnsOf("handler") :
        (/\ ctx.pc = "done"
         /\ ev[i].value.t = "object"
         /\ ~Missing(Response200) /\ Has(Response200, "content")
         /\ Missing(JsonResponse) \/ ObjectUnfit(ev[i].value, JsonResponse.schema))
        => AnsweredWith(500, InternalErrorMessage)


\* C28: when the handler returns a string and response "200" declares
\* text/plain, the answer is 200 with Content-Type text/plain and the string
\* as its body; when text/plain is not declared, the answer is 500.
C28_StringAsTextPlain ==
    \A i \in ReturnsOf("handler") :
        (/\ ctx.pc = "done"
         /\ ev[i].value.t = "string"
         /\ ~Missing(Response200) /\ Has(Response200, "content"))
        => IF HasKey(Response200.content, TextPlain)
           THEN /\ AnsweredWith(200, ev[i].value.v)
                /\ Carries("Content-Type", "text/plain")
           ELSE res.statusCode = 500


\* The raw value is acceptable for a parameter of that schema type
Acceptable(type, raw) ==
    IF type = "number" THEN MatchesNumeric(raw)
    ELSE IF type = "boolean"
    THEN raw \in {<<"t", "r", "u", "e">>, <<"f", "a", "l", "s", "e">>, <<"1">>, <<"0">>}
    ELSE TRUE

\* The request in hand is turned down for its format: no handler, and 400
\* unless the authorize hook raised before
TurnedDown ==
    /\ At("handler") = {}
    /\ ctx.pc \notin {"import", "handler"}
    /\ (ctx.pc = "done" /\ ThrowsOf("authorize") = {}) => res.statusCode = 400

\* The parameters of the operation chosen for the request in hand that are
\* bound from the placeholders of the path, with their raw values
PathBound ==
    IF Missing(ctx.spec) \/ ~Has(ctx.spec, "parameters") THEN {}
    ELSE {[parameter |-> ctx.spec.parameters[k], raw |-> ctx.pathParameters[k]] :
            k \in {j \in 1..Len(ctx.pathParameters) :
                    j <= Len(ctx.spec.parameters) /\ ctx.spec.parameters[j].in = "path"}}

\* The declared query parameters the query of the request in hand supplies,
\* with their raw values
QueryBound ==
    IF ~QueryRequest \/ ~HasKey(router.paths, ctx.requestPath)
        \/ Missing(OperationAt(ctx.requestPath))
    THEN {}
    ELSE {[parameter |-> parameter, raw |-> Get(QueryGiven, parameter.name).v] :
            parameter \in {p \in QueryDeclared : Get(QueryGiven, p.name) # undefined}}

\* C29: for every declared parameter bound from the request, from the query
\* string or from a placeholder of the path: a raw value that is not
\* acceptable for the schema type (number: not matching ^[0-9.-]+$; boolean:
\* none of "true", "false", "1", "0") is turned down with 400 and the
\* handler is not called.
C29_ParametersChecked ==
    ctx.pc # "idle" =>
        \A b \in PathBound \cup QueryBound :
            ~Acceptable(b.parameter.schema.type, b.raw) => TurnedDown


\* The path parameters the operation chosen for the request in hand declares
PathDeclared ==
    IF Missing(ctx.spec) \/ ~Has(ctx.spec, "parameters") THEN {}
    ELSE {ctx.spec.parameters[k] :
            k \in {j \in 1..Len(ctx.spec.parameters) : ctx.spec.parameters[j].in = "path"}}

\* C30: whenever the request resolves to a declared template and the
\* operation declares path parameters, the request object the handler gets
\* holds every declared path parameter, with or without a query string in
\* the URL.
C30_PathParametersBound ==
    (ctx.pc # "idle" /\ ~IsNullish(ctx.pathWithPathParameters)) =>
        \A i \in At("handler") : \A parameter \in PathDeclared :
            /\ ev[i].request.t = "object"
            /\ Get(ev[i].request, parameter.name) # undefined


\* The router as the constructor left it, for the setting of this run
Constructed ==
    Constructor(CHOOSE setting \in Settings :
        /\ Keys(Constructor(setting).paths) = Keys(router.paths)
        /\ Constructor(setting).customHeaders = router.customHeaders)

\* The key of the path table the request in hand was resolved to
ResolvedKey ==
    IF ~IsNullish(ctx.pathWithPathParameters)
    THEN ctx.pathWithPathParameters.v ELSE ctx.requestPath

\* C31: when both the path item and the operation define a parameters list,
\* the list of the operation is the one used for binding; the list of the
\* path item is inherited only by an operation that defines none of its own.
C31_OperationParametersWin ==
    (ctx.pc # "idle" /\ ~Missing(ctx.spec)) =>
        LET item == Lookup(Constructed.paths, ResolvedKey)
            operation == item[ToLowerCase(ctx.request.method)]
        IN  (Has(item, "parameters") /\ Len(item.parameters) > 0) =>
                ctx.spec.parameters =
                    IF Has(operation, "parameters")
                    THEN operation.parameters ELSE item.parameters


\* C32: a request whose path is a registered token URL, with the authenticate
\* hook bound, has the hook called with the request and is answered with what
\* the hook returns as JSON with status 200, or with what the error table
\* gives for what the hook raises; the path is not resolved and neither the
\* authorize hook nor the parser nor a handler is called, whatever the method
\* of the request.
C32_TokenEndpoint ==
    \A i \in At("authenticate") :
        /\ ev[i].request = ctx.request
        /\ At("authorize") = {} /\ At("parse") = {} /\ At("handler") = {}
        /\ Missing(ctx.spec)
        /\ ctx.pc # "lost"
        /\ \A j \in ReturnsOf("authenticate") :
            Settled => /\ JSONstringify(ev[j].value).t = "string"
                       /\ AnsweredWith(200, JSONstringify(ev[j].value).v)
                       /\ Carries("Content-Type", "application/json")
        /\ \A j \in ThrowsOf("authenticate") :
            Settled => AnsweredWith(TableStatus(ev[j].error), TableBody(ev[j].error))


\* A preflight request
Preflight == ctx.pc # "idle" /\ ctx.request.method = "OPTIONS"

\* C33: an OPTIONS request is answered with status 200, no body and the
\* configured Access-Control-Allow-Headers and Access-Control-Allow-Methods,
\* whatever its URL is (declared or not, given or missing), and no hook, no
\* parser and no handler is called for it.
C33_PreflightAnswered ==
    Preflight =>
        /\ ctx.pc = "done"
        /\ res.ended /\ res.ends = 1 /\ res.writeHeads = 1
        /\ res.statusCode = 200
        /\ res.body = <<>>
        /\ Carries("Access-Control-Allow-Headers", router.accessControl.allowHeaders)
        /\ Carries("Access-Control-Allow-Methods", router.accessControl.allowMethods)
        /\ At("authenticate") = {} /\ At("authorize") = {}
        /\ At("parse") = {} /\ At("handler") = {}

C33_Witness ==
    /\ Preflight
    /\ IsNullish(ctx.request.url)
    /\ pending = {}
    /\ res.statusCode = 200 /\ res.ended
    /\ HasKey(res.headers, "Access-Control-Allow-Methods")

C33_WitnessToken ==
    /\ Preflight
    /\ ctx.request.url = Str(tokenPath)
    /\ router.authenticateFunction # undefined
    /\ res.statusCode = 200 /\ res.ended


\* C34: for every request and every outcome, the status line of the response
\* is written at most once and the response is ended exactly once.
C34_OneResponse ==
    /\ res.writeHeads <= 1
    /\ res.ends <= 1
    /\ Settled => res.ends = 1


\* The number of segments that are placeholders
RECURSIVE PlaceholderCount(_)
PlaceholderCount(segments) ==
    IF segments = <<>> THEN 0
    ELSE (IF IsPlaceholder(Head(segments)) THEN 1 ELSE 0) + PlaceholderCount(Tail(segments))

\* The segments before the first placeholder are those of the path
LeadingLiteralsEqual(segments, given) ==
    \A i \in 1..Len(segments) :
        (\A j \in 1..i : ~IsPlaceholder(segments[j])) =>
            i <= Len(given) /\ segments[i] = given[i]

\* C35: whenever retrievePathParameters returns a template, the template has
\* exactly as many placeholders as values were accumulated, it has as many
\* segments as the request path, and its leading literal segments are those
\* of the request path.
C35_TemplateShape ==
    (ctx.pc # "idle" /\ ~IsNullish(ctx.pathWithPathParameters)) =>
        LET segments == Split(ctx.pathWithPathParameters.v, "/")
            given == Split(ctx.requestPath, "/")
        IN  /\ PlaceholderCount(segments) = Len(ctx.pathParameters)
            /\ Len(segments) = Len(given)
            /\ LeadingLiteralsEqual(segments, given)


-----------------------------------------------------------------------------
(* retrievePathParameters on its own, one activation at a time *)

MaxSegments == 4

\* The segments the request paths are made of
SegmentInputs == {<<"u", "s", "e", "r", "s">>, <<"4", "2">>,
                  <<"o", "r", "d", "e", "r", "s">>, <<>>}

\* The segments, each after a "/"
RECURSIVE Slashed(_)
Slashed(segments) ==
    IF segments = <<>> THEN <<>>
    ELSE <<"/">> \o Head(segments) \o Slashed(Tail(segments))

\* Request paths of up to MaxSegments segments, with and without a leading
\* "/", with empty segments and with a trailing "/"
PathInputs ==
    LET slashed == UNION {{Slashed(segments) :
                            segments \in [1..n -> SegmentInputs]} : n \in 1..MaxSegments}
    IN  slashed \cup {Tail(path) : path \in slashed}

\* An activation that goes on past a path ending in "/"
retrievePathParametersEager(paths, requestPath, pathParameters) ==
    LET index == LastIndexOf(requestPath, "/")
        taken == IF index = Len(requestPath) THEN <<>>
                 ELSE SubSeq(requestPath, index + 1, Len(requestPath))
    IN  IF index = 0 \/ index = 1
        THEN [returns |-> TRUE, path |-> null,
              requestPath |-> requestPath, pathParameters |-> pathParameters]
        ELSE [returns |-> FALSE, path |-> null,
              requestPath |-> SubSeq(requestPath, 1, index - 1),
              pathParameters |-> Append(pathParameters, taken)]

\* One activation of retrievePathParameters: what it returns, or the
\* arguments of the call it makes
retrievePathParametersCall(paths, requestPath, pathParameters) ==
    LET index == LastIndexOf(requestPath, "/")
    IN  IF index = 0 \/ index = 1 \/ index = Len(requestPath)
        THEN [returns |-> TRUE, path |-> null,
              requestPath |-> requestPath, pathParameters |-> pathParameters]
        ELSE LET pushed == Append(pathParameters,
                                  SubSeq(requestPath, index + 1, Len(requestPath)))
                 _requestPath == SubSeq(requestPath, 1, index - 1)
                 pattern == _requestPath \o Placeholders(Len(pushed))
                 matching == {i \in 1..Len(paths) : RegExpTest(pattern, paths[i].k)}
             IN  IF matching # {}
                 THEN [returns |-> TRUE,
                       path |-> Str(paths[CHOOSE i \in matching :
                                            \A j \in matching : i <= j].k),
                       requestPath |-> requestPath, pathParameters |-> pushed]
                 ELSE [returns |-> FALSE, path |-> null,
                       requestPath |-> _requestPath, pathParameters |-> pushed]

InitPath ==
    /\ router \in {Constructor(setting) : setting \in {Setting, SettingReversed}}
    /\ pending = HookImports(Setting)
    /\ ctx = Locals(NoRequest)
    /\ res = NewResponse
    /\ ev = <<>>
    /\ served = 0
    /\ \E requestPath \in PathInputs :
        vin = [requestPath |-> requestPath, pathParameters |-> <<>>,
               calls |-> <<>>, path |-> undefined]
    /\ vout = "idle"
    /\ waiting = NoCall

\* The activation in hand runs: it returns, or it calls the function again
RetrieveStep ==
    /\ vout = "idle"
    /\ LET call == retrievePathParametersCall(router.paths, vin.requestPath,
                                              vin.pathParameters)
       IN  /\ vin' = [requestPath |-> call.requestPath,
                      pathParameters |-> call.pathParameters,
                      calls |-> Append(vin.calls, vin.requestPath),
                      path |-> IF call.returns THEN call.path ELSE undefined]
           /\ vout' = IF call.returns THEN "returned" ELSE "idle"
    /\ UNCHANGED <<router, pending, ctx, res, ev, served, waiting>>

NextPath == RetrieveStep

\* A call of a synchronous function runs to its end
SpecPath == InitPath /\ [][NextPath]_vars /\ WF_vars(RetrieveStep)

\* The path has no segment to take: no "/", its only "/" at the start, or a
\* "/" at its end
NoSegment(path) ==
    LET index == LastIndexOf(path, "/")
    IN  index = 0 \/ index = 1 \/ index = Len(path)

\* The segments of the path that are not empty
NamedSegments(path) == {i \in 1..Len(Split(path, "/")) : Split(path, "/")[i] # <<>>}

\* The path retrievePathParameters was first called with
WholePath == IF vin.calls = <<>> THEN vin.requestPath ELSE vin.calls[1]

RetrieveShape ==
    /\ Len(vin.calls) <= Cardinality(NamedSegments(WholePath)) + 1
    /\ \A i \in 1..(Len(vin.calls) - 1) : ~NoSegment(vin.calls[i])
    /\ vout = "returned" =>
        /\ vin.path = null \/ (vin.path.t = "string" /\ HasKey(router.paths, vin.path.v))
        /\ NoSegment(vin.requestPath) => vin.path = null
        /\ [path |-> vin.path, pathParameters |-> vin.pathParameters]
                = retrievePathParameters(router.paths, WholePath, <<>>)

OfType(value, type) ==
    IF type = "null" THEN IsNullish(value) ELSE typeof(value) = type /\ ~IsNullish(value)

\* The branches that validate the value
Validating(branches) ==
    {i \in 1..Len(branches) : validate(vin.value, branches[i], vin.components) # "throws"}

\* C37: for a schema whose type is a list of types, validation succeeds if and
\* only if the value validates with at least one of the listed types; for
\* anyOf, if and only if at least one branch validates; for allOf, if and only
\* if every branch validates.
C37_Combinators ==
    vout # "idle" =>
        /\ Has(vin.spec, "typeList") =>
            (vout # "throws" <=>
                \E i \in 1..Len(vin.spec.typeList) :
                    /\ OfType(vin.value, vin.spec.typeList[i])
                    /\ validate(vin.value, [type |-> vin.spec.typeList[i]],
                                vin.components) # "throws")
        /\ (Has(vin.spec, "anyOf") /\ ~Has(vin.spec, "type")) =>
            (vout # "throws" <=> Validating(vin.spec.anyOf) # {})
        /\ (Has(vin.spec, "allOf") /\ ~Has(vin.spec, "type")) =>
            (vout # "throws" <=>
                Validating(vin.spec.allOf) = 1..Len(vin.spec.allOf))

C37_Witness ==
    /\ vout = "throws"
    /\ Has(vin.spec, "allOf")
    /\ Len(vin.spec.allOf) = 3
    /\ Cardinality(Validating(vin.spec.allOf)) = 2


\* C38: Validator.validate leaves the value, the schema and the component
\* registry it is given as they were (the schema node too, while the members
\* of a type list are tried), so validating the same value against the same
\* schema again has the same outcome.
C38_ValidateLeavesArguments ==
    \A i \in 1..Len(ev) :
        /\ ev[i].input = vin
        /\ ev[i].outcome = vout

C38_Witness ==
    /\ Len(ev) = 2
    /\ Has(vin.spec, "typeList")
    /\ vin.spec.typeList = <<"string", "number">>
    /\ vin.value = Str(value1)
    /\ vout = "undefined"


\* C39: every request other than an OPTIONS preflight, whatever it ends with,
\* has exactly one info-level line written to the log, a line with the method
\* and the URL of the request.
C39_OneLogLine ==
    (ctx.pc # "idle" /\ ctx.request.method # "OPTIONS") =>
        /\ Cardinality(At("log")) <= 1
        /\ Settled => Cardinality(At("log")) = 1


-----------------------------------------------------------------------------
(* parse() of a JSON request, one stream event at a time *)

MaxChunks == 3

\* The ways to cut a text into n chunks, empty chunks among them
RECURSIVE SplitsInto(_, _)
SplitsInto(text, n) ==
    IF n = 1 THEN {<<text>>}
    ELSE UNION {{<<SubSeq(text, 1, i)>> \o rest :
                    rest \in SplitsInto(SubSeq(text, i + 1, Len(text)), n - 1)} :
                i \in 0..Len(text)}

\* The texts of the bodies: JSON texts, and texts that are no JSON
BodyTexts ==
    {Stringify(BodyOk), Stringify(BodyNoKey2),
     SubSeq(Stringify(BodyNoKey2), 1, Len(Stringify(BodyNoKey2)) - 1),
     <<"{">>}

\* The chunks a body arrives in: none, or a text in up to MaxChunks chunks
ChunkInputs ==
    {<<>>} \cup UNION {SplitsInto(text, n) : text \in BodyTexts, n \in 1..MaxChunks}

\* A buffer that drops what arrived before
BufferConcatLast(buffer, data) == Buf(data)

\* The "data" listener of parseJson: buffer = data, or Buffer.concat([buffer, data])
BufferConcat(buffer, data) ==
    IF buffer = undefined THEN Buf(data) ELSE Buf(buffer.v \o data)

InitParse ==
    /\ router = Constructor(Setting)
    /\ pending = HookImports(Setting)
    /\ ctx = Locals(NoRequest)
    /\ res = NewResponse
    /\ ev = <<>>
    /\ served = 0
    /\ \E chunks \in ChunkInputs, contentType \in ContentTypes \ {undefined, Str(TextPlain)} :
        vin = [request |-> Req("POST", Str(testPath), contentType, chunks),
               arriving |-> chunks, buffer |-> undefined, ended |-> FALSE,
               value |-> undefined]
    /\ vout = "idle"
    /\ waiting = NoCall

\* The request emits "data" with its next chunk
OnData ==
    /\ vout = "idle"
    /\ vin.arriving # <<>>
    /\ vin' = [vin EXCEPT !.buffer = BufferConcat(vin.buffer, Head(vin.arriving)),
                          !.arriving = Tail(vin.arriving)]
    /\ UNCHANGED <<router, pending, ctx, res, ev, served, vout, waiting>>

\* The request emits "end": the promise of parse() settles on what the buffer holds
OnEnd ==
    /\ vout = "idle"
    /\ vin.arriving = <<>>
    /\ LET received == IF vin.buffer = undefined THEN <<>> ELSE <<vin.buffer.v>>
           body == parse([vin.request EXCEPT !.chunks = received])
       IN  /\ vin' = [vin EXCEPT !.ended = TRUE, !.value = body.value]
           /\ vout' = IF body.rejected THEN "rejected" ELSE "resolved"
    /\ UNCHANGED <<router, pending, ctx, res, ev, served, waiting>>

NextParse == OnData \/ OnEnd

SpecParse == InitParse /\ [][NextParse]_vars

\* The text of all the chunks of the request, in the order they arrive in
WholeText == Concat(vin.request.chunks)

\* What parse() is to settle on for a body text
DecodedOrRaised ==
    /\ \A x \in JsonObjects :
        Stringify(x) = WholeText =>
            vout = "resolved" /\ Get(vin.value, dataKey) = x
    /\ (\A x \in JsonObjects : Stringify(x) # WholeText) =>
            vout = "rejected" /\ vin.value = Error("Error", InvalidBodyMessage)

====
